---- MODULE Spec2Model ----
(***************************************************************************)
(* The tick-driven world simulation engine (server/src/simulation/         *)
(* engine.ts), the world-state store it writes (the tables of              *)
(* server/src/db/migrate.ts) and the player's cancel request               *)
(* (server/src/routes/experiments.ts).                                     *)
(*                                                                         *)
(* One step of a tick body is one awaited store call together with the     *)
(* synchronous code that leads to it; any other handler may run between    *)
(* two steps.  A read of a table nothing here writes (cells,               *)
(* civilizations) is taken together with the call next to it.              *)
(* Math.random() is a nondeterministic draw from Rand, in thousandths.     *)
(* Fractions are kept exactly as scaled integers.                          *)
(***************************************************************************)
EXTENDS Integers, Sequences, FiniteSets, TLC

\* ------------------------------------------------------------------ bounds
\* A behaviour is explored within a budget of calls (see Scenarios); the
\* budgets are built from these numbers.
MaxFires == 2       \* timer firings in one behaviour
YearFires == 1      \* timer firings in a behaviour of the populated world
MaxInFlight == 2    \* tick bodies that may be executing at once
MaxStarts == 2      \* calls of start()
MaxStops == 1       \* calls of stop()
MaxFails == 1       \* store calls that reject (connection loss, timeout)
MaxCancels == 1     \* cancel requests of the player
MaxSubmits == 2     \* experiments the player submits, by REST or by socket
MaxCells == 3       \* cells of a list given to buildNeighborMap
MaxCoord == 1       \* largest absolute coordinate of such a cell

\* ------------------------------------------------------- program constants
TICKS_PER_YEAR == 60
MAX_TECH == 9
MIGRATION_MIN_SIZE == 1000
EVENT_DURATION_YEARS == 10
DEFAULT_WAR_TENDENCY == 30
DEFAULT_XENOPHOBIA == 50
DEFAULT_COLLECTIVISM == 50
DEFAULT_TRADITION == 50
DEFAULT_EXPERIMENT_POINTS == 1000
SOCKET_EXPERIMENT_COST == 10

\* Math.random(): a value in [0, 1), here in thousandths.
Rand == {0, 999}

Max(a, b) == IF a >= b THEN a ELSE b
Min(a, b) == IF a <= b THEN a ELSE b

\* SUM(field) over rows
RECURSIVE SumOf(_, _)
SumOf(rows, field) ==
  IF rows = << >> THEN 0 ELSE Head(rows)[field] + SumOf(Tail(rows), field)

\* floor(a * b / c) for a, b >= 0 and c > 0, without forming a * b.
MulDiv(a, b, c) == (a \div c) * b + ((a % c) * b) \div c

\* ------------------------------------------------------------------- cells
\* The cell grid is immutable after generation: the engine only reads it.
Cells ==
  << [id |-> 1, x |-> 0,  y |-> 0, biome |-> "grassland", food_capacity |-> 4, temperature |-> 15],
     [id |-> 2, x |-> 1,  y |-> 0, biome |-> "grassland", food_capacity |-> 4, temperature |-> 15],
     [id |-> 3, x |-> 0,  y |-> 1, biome |-> "ocean",     food_capacity |-> 4, temperature |-> 15],
     [id |-> 4, x |-> -1, y |-> 0, biome |-> "grassland", food_capacity |-> 4, temperature |-> 45] >>

CellIds == {Cells[k].id : k \in 1..Len(Cells)}
CellById(id) == Cells[CHOOSE k \in 1..Len(Cells) : Cells[k].id = id]

\* A variant of Directions: the last offset is (1,-1), which has no opposite
\* in the list.
DirectionsSkewed == << <<-1, 0>>, <<1, 0>>, <<0, -1>>, <<0, 1>>, <<-1, -1>>, <<1, -1>> >>

Directions == << <<-1, 0>>, <<1, 0>>, <<0, -1>>, <<0, 1>>, <<-1, -1>>, <<1, 1>> >>

\* The key `${x},${y}` of a cell in cellGrid and in the index: the two decimal
\* numerals joined by a comma, which no numeral contains, so two keys are
\* equal exactly when the two coordinates are.
CoordKey(x, y) == << x, y >>

\* buildNeighborMap, lines 155-172.  cellGrid holds for a key the last cell
\* of the list that has it; the index gives for the key of every cell the
\* cells cellGrid holds at the six offsets, in the order of the offsets.
buildNeighborMap(cs) ==
  LET KeyOf(c) == CoordKey(c.x, c.y)
      Keys == {KeyOf(cs[k]) : k \in 1..Len(cs)}
      Last(key) == CHOOSE k \in 1..Len(cs) :
                     /\ KeyOf(cs[k]) = key
                     /\ \A h \in 1..Len(cs) : KeyOf(cs[h]) = key => h <= k
      cellGrid == [key \in Keys |-> cs[Last(key)]]
      NeighborsOf(cell) ==
        LET F[n \in 0..Len(Directions)] ==
              IF n = 0 THEN << >>
              ELSE LET key == CoordKey(cell.x + Directions[n][1],
                                       cell.y + Directions[n][2])
                   IN F[n - 1] \o (IF key \in Keys THEN << cellGrid[key] >> ELSE << >>)
        IN F[Len(Directions)]
  IN [key \in Keys |-> NeighborsOf(cellGrid[key])]

\* buildNeighborMap: for a cell, the cells found at the six offsets, in the
\* order of the offsets.
Neighbors(cell) ==
  LET At(d) == {k \in 1..Len(Cells) :
                  Cells[k].x = cell.x + d[1] /\ Cells[k].y = cell.y + d[2]}
      Hit(d) == At(d) # {}
      Pick(d) == Cells[CHOOSE k \in At(d) : TRUE]
      F[n \in 0..Len(Directions)] ==
        IF n = 0 THEN << >>
        ELSE F[n - 1] \o (IF Hit(Directions[n]) THEN << Pick(Directions[n]) >> ELSE << >>)
  IN F[Len(Directions)]

\* calculateCarryingCapacity
calculateCarryingCapacity(cell, techLevel) ==
  LET baseCap == cell.food_capacity * 100
      biomeTenths == IF cell.biome = "ocean" THEN 1
                     ELSE IF cell.biome = "desert" THEN 3 ELSE 10
  IN (baseCap * (2 + techLevel) * biomeTenths) \div 20

\* ------------------------------------------------------------------- state
VARIABLES
  \* SimulationEngine fields
  tickInterval,   \* the timer start() armed last, 0 for null
  currentTick,
  currentYear,
  worldId,        \* 0 for null
  isRunning,
  \* the runtime around the engine
  timers,         \* the setInterval timers that are armed
  timersMade,     \* how many timers setInterval has created
  starts,         \* start() calls awaiting their world query: the rows they read
  bodies,         \* the executions of tick(): slot -> frame
  cancels,        \* DELETE /:id requests in flight
  submits,        \* POST /submit requests in flight
  \* the store
  world,          \* the worlds row with status 'running'
  populations,    \* populations rows, id = position
  events,         \* events rows, id = position
  experiments,    \* experiments rows, id = position
  players,        \* players rows
  snapshots,      \* world_snapshots rows
  cellSpecies,    \* cell_species rows
  cells,          \* cells rows, never written by the engine
  \* history, read by the properties only
  budget,         \* how many calls of each kind the behaviour may hold
  neighborMap,    \* the index buildNeighborMap returns for the rows of cells
  nFires, nStarts, nStops, nFails, nCancels, nSubmits,
  stopReturned,   \* stop() was the last of start()/stop() to be called
  executed,       \* the tick numbers whose body has begun, in order
  caught,         \* the ticks whose body threw, as the catch block left things
  emitted,        \* the notifications sent to the clients, in order
  persisted       \* the counters the UPDATE worlds of tick() has written, in order

engineVars == << tickInterval, currentTick, currentYear, worldId, isRunning >>
runtimeVars == << timers, timersMade, starts >>
storeVars == << world, populations, events, experiments, players, snapshots, cellSpecies, cells >>
\* the store without the one table a step writes
butPopulations == << world, events, experiments, players, snapshots, cellSpecies, cells >>
butEvents == << world, populations, experiments, players, snapshots, cellSpecies, cells >>
butExperiments == << world, populations, events, players, snapshots, cellSpecies, cells >>
butPlayers == << world, populations, events, experiments, snapshots, cellSpecies, cells >>
butSnapshots == << world, populations, events, experiments, players, cellSpecies, cells >>
butWorld == << populations, events, experiments, players, snapshots, cellSpecies, cells >>
butCellSpecies == << world, populations, events, experiments, players, snapshots, cells >>
\* what a step of a tick body leaves alone beside the engine and the store
bodyFrame == << runtimeVars, cancels, budget, neighborMap, submits, nSubmits, nFires, nStarts, nStops, nFails,
               nCancels, stopReturned, executed >>
logVars == << emitted, persisted >>
histVars == << budget, neighborMap, submits, nSubmits, nFires, nStarts, nStops, nFails, nCancels, stopReturned,
              executed, caught, logVars >>
vars == << engineVars, runtimeVars, bodies, cancels, storeVars, histVars >>

Slots == 1..MaxInFlight

\* The yearly phases, in the order tick() awaits them.
PhaseOrder == << "processMigrations", "processConflicts", "processTechSpread",
                 "processEvents", "resolveExperiments", "createSnapshot" >>

IdleBody ==
  [ pc |-> "idle", tickNo |-> 0, isYearEnd |-> FALSE,
    populations |-> << >>,   \* the rows getPopulations() returned
    i |-> 0,                 \* the index of the loop the body is in
    target |-> 0, migrants |-> 0,           \* processMigrations
    winner |-> 0, loser |-> 0, losses |-> 0, \* processConflicts
    events |-> << >>,        \* the rows processEvents() read
    pending |-> << >>,       \* the rows resolveExperiments() read
    result |-> FALSE,        \* result.success of the experiment being executed
    stats |-> << >>,         \* what getWorldStats() returned to createSnapshot
    begun |-> << >>,         \* history: the yearly phases begun
    ended |-> << >>,         \* history: the yearly phases that returned
    wrote |-> FALSE,         \* history: a store call of this body changed the store
    used |-> << >>,          \* history: sizes a phase computed with, beside the stored ones
    seen |-> << >>,          \* history: the neighbour rows the last updatePopulation got
    sumBefore |-> 0,         \* history: the stored people when processMigrations began
    existingPop |-> 0,       \* id of the row the migrants were added to, 0 after an INSERT
    dispatched |-> << >>,    \* history: ids of the events the last pass sent to the switch
    deactivated |-> << >> ]  \* history: ids of the events the last pass deactivated

InFlight == {b \in Slots : bodies[b].pc # "idle"}

\* ----------------------------------------------------------------- store
\* A populations row as db/migrate.ts declares it; the columns no code of
\* the engine writes keep their DEFAULT and are the constants above.
PopRow(cell, civ, size, tech, stab, prosp, edu) ==
  [ cell_id |-> cell, civilization_id |-> civ, population_size |-> size,
    tech_level |-> tech, stability |-> stab, prosperity |-> prosp,
    education |-> edu, ideology_collectivism |-> DEFAULT_COLLECTIVISM,
    ideology_tradition |-> DEFAULT_TRADITION ]

Civilizations == {1, 2}

\* The worlds row with status 'running' that start() finds, if there is one.
NoWorld == [exists |-> FALSE, current_tick |-> 0, current_year |-> 0]
WorldAt(tick) ==
  [exists |-> TRUE, current_tick |-> tick, current_year |-> tick \div TICKS_PER_YEAR]

\* A running world in its year 10, one or two ticks before the year ends.
InitTicks == {658, 659}

\* Two civilizations share cell 1 (both moved into it in an earlier year),
\* cell 2 holds a small settlement, cell 4 is empty and cell 3 is ocean.
InitPopulations ==
  << PopRow(1, 1, 1000, 3, 5, 50, 100),
     PopRow(1, 2, 400, 0, 55, 45, 0),
     PopRow(2, 2, 200, 0, 50, 50, 100) >>

\* A world whose one population has died out: its row stays, with size 0.
ExtinctPopulations == << PopRow(2, 2, 0, 0, 50, 50, 0) >>

\* A population that has died out but whose education allows a tech
\* advancement at the year boundary.
ScholarPopulations == << PopRow(2, 2, 0, 0, 50, 50, 100) >>

\* A crowded population of civilization 1 in cell 1, beside two populations
\* of civilization 2 that have died out, one in its own cell and one in the
\* neighbour cell 2.
GhostPopulations ==
  << PopRow(1, 1, 1000, 3, 50, 50, 100),
     PopRow(1, 2, 0, 0, 55, 45, 0),
     PopRow(2, 2, 0, 0, 50, 50, 100) >>

\* Two crowded populations of one civilization on either side of the empty
\* cell 1.
SettlerPopulations ==
  << PopRow(2, 1, 1000, 3, 50, 50, 100), PopRow(4, 1, 1000, 3, 50, 50, 100) >>

\* A population that is poor and one that is rich, each alone in its world,
\* neither crowded: only the stability of the row changes in a tick, and at
\* a year boundary the education of the rich one allows a tech advancement.
DestitutePopulations == << PopRow(2, 1, 300, 0, 50, 20, 0) >>
ThrivingPopulations == << PopRow(2, 1, 300, 0, 50, 80, 100) >>

EventRow(type, scope, cell, civ, startTick, endTick, active) ==
  [ type |-> type, scope |-> scope, target_cell_id |-> cell, target_civ_id |-> civ,
    start_tick |-> startTick, end_tick |-> endTick, is_active |-> active ]

\* Events generateRandomEvent() made at the year ends 60 and 120 (0 is NULL).
InitEvents ==
  << EventRow("golden_age", "civilization", 0, 1, 60, 660, TRUE),
     EventRow("golden_age", "civilization", 0, 2, 120, 720, TRUE) >>

\* Cell 1 with two populations of civilization 1, as migration leaves them,
\* and a smaller one of civilization 2.
SharedCellPopulations ==
  << PopRow(1, 1, 900, 3, 50, 50, 0), PopRow(1, 1, 500, 2, 50, 50, 0),
     PopRow(1, 2, 100, 0, 50, 50, 0) >>

\* A famine in cell 2 that lasts beyond the year end 660, and a population
\* in each of the cells 1 and 2 that the per-population pass leaves with
\* whole numbers.
FamineEvents == << EventRow("famine", "cell", 2, 0, 600, 720, TRUE) >>
FaminePopulations ==
  << PopRow(2, 1, 300, 0, 50, 50, 0), PopRow(1, 2, 300, 0, 50, 50, 0) >>

ExperimentRow(player, category, type, target, cost) ==
  [ player_id |-> player, category |-> category, type |-> type,
    target_id |-> target, cost |-> cost, status |-> "pending",
    result |-> "null",
    paid |-> cost ]   \* history: the points taken from the player for it

\* What POST /submit accepted and left pending: (category, type, cost) of
\* EXPERIMENT_TYPES, on cell 1.
InitExperiments ==
  { << ExperimentRow(1, "technological", "uplift", 1, 30) >>,
    << ExperimentRow(1, "technological", "suppress", 1, 25) >> }

\* Two experiments submitted in one year: a pandemic with no lethality given
\* and an uplift, both on cell 2.
QueuedExperiments ==
  << ExperimentRow(1, "biological", "pandemic", 2, 50),
     ExperimentRow(1, "technological", "uplift", 2, 30) >>

\* The points of a player who has spent all but the cost of one meteor.
LowPoints == 100

\* The calls a behaviour may hold.
Budget(fi, fl, sa, so, fa, ca) ==
  [ fires |-> fi, inFlight |-> fl, starts |-> sa, stops |-> so,
    fails |-> fa, cancels |-> ca, submits |-> 0 ]

Scenario(b, w, pops, exps) ==
  [ budget |-> b, world |-> w, populations |-> pops, experiments |-> exps,
    events |-> InitEvents, points |-> DEFAULT_EXPERIMENT_POINTS ]

\* A scenario whose store holds the events `evs`.
ScenarioWith(b, w, pops, exps, evs) ==
  [ budget |-> b, world |-> w, populations |-> pops, experiments |-> exps,
    events |-> evs, points |-> DEFAULT_EXPERIMENT_POINTS ]

\* The behaviours that are explored, each an initial store with a budget:
\*  - no running world;
\*  - the populated world at the last tick of its year, ticking alone, with
\*    rejected store calls;
\*  - a world whose population has died out, with timer firings that may
\*    overlap and rejected store calls;
\*  - the same world with start() and stop() calls and rejected store calls;
\*  - the same world with the player's cancel request and rejected calls.
Scenarios ==
  { Scenario(Budget(MaxFires, 1, MaxStarts, MaxStops, 0, 0), NoWorld, << >>, << >>) }
  \cup { Scenario(Budget(YearFires, 1, 1, 0, MaxFails, 0), WorldAt(659), InitPopulations,
                  << ExperimentRow(1, "technological", "uplift", 1, 30) >>) }
  \cup { Scenario(Budget(MaxFires, MaxInFlight, 1, 0, MaxFails, 0), WorldAt(t),
                  ExtinctPopulations, e)
           : t \in InitTicks, e \in InitExperiments }
  \cup { Scenario(Budget(MaxFires, 1, MaxStarts, MaxStops, MaxFails, 0), WorldAt(t),
                  ExtinctPopulations, e)
           : t \in InitTicks, e \in InitExperiments }
  \cup { Scenario(Budget(YearFires, 1, 1, 0, MaxFails, MaxCancels), WorldAt(659),
                  ExtinctPopulations, e)
           : e \in InitExperiments }
  \cup { Scenario(Budget(YearFires, 1, 1, 0, 0, 0), WorldAt(659), SettlerPopulations, << >>) }
  \cup { Scenario(Budget(YearFires, 1, 1, 0, 0, 0), WorldAt(659), GhostPopulations, << >>) }
  \cup { Scenario(Budget(YearFires, 1, 1, 0, MaxFails, 0), WorldAt(659), ExtinctPopulations,
                  QueuedExperiments) }
  \cup { Scenario(Budget(MaxFires, MaxInFlight, 1, 0, 0, 0), WorldAt(659), ScholarPopulations, << >>) }
  \cup { ScenarioWith(Budget(YearFires, 1, 1, 0, 0, 0), WorldAt(659), FaminePopulations,
                      << >>, FamineEvents) }
  \cup { [Scenario(Budget(0, 1, 0, 0, 0, MaxCancels), WorldAt(659), ExtinctPopulations, << >>)
             EXCEPT !.budget.submits = MaxSubmits, !.points = LowPoints] }
  \cup { Scenario(Budget(YearFires, 1, 1, 0, 0, 0), WorldAt(659), SharedCellPopulations, << >>) }
  \cup { Scenario(Budget(MaxFires, 1, 1, 0, 0, 0), WorldAt(t), p, << >>)
           : t \in InitTicks, p \in {DestitutePopulations, ThrivingPopulations} }

PlayerRow(points) ==
  [ experiment_points |-> points, benevolence |-> 0, mischief |-> 0, curiosity |-> 0,
    credited |-> << >> ]   \* history: ids of the experiments that changed the reputation

Init ==
  /\ tickInterval = 0
  /\ currentTick = 0
  /\ currentYear = 0
  /\ worldId = 0
  /\ isRunning = FALSE
  /\ timers = {}
  /\ timersMade = 0
  /\ starts = << >>
  /\ bodies = [b \in Slots |-> IdleBody]
  /\ cancels = << >>
  /\ submits = << >>
  /\ \E s \in Scenarios :
       /\ budget = s.budget
       /\ world = s.world
       /\ populations = s.populations
       /\ experiments = s.experiments
       /\ events = s.events
       \* POST /submit took the cost of the experiment from the player
       /\ players = [p \in {1} |->
                       PlayerRow(s.points - SumOf(s.experiments, "cost"))]
  /\ snapshots = << >>
  /\ cellSpecies = << >>
  /\ cells = Cells
  /\ neighborMap = buildNeighborMap(Cells)
  /\ nFires = 0 /\ nStarts = 0 /\ nStops = 0 /\ nFails = 0 /\ nCancels = 0
  /\ nSubmits = 0
  /\ stopReturned = FALSE
  /\ executed = << >>
  /\ caught = << >>
  /\ emitted = << >>
  /\ persisted = << >>

\* ------------------------------------------------------------- scheduler
RemoveAt(s, k) == SubSeq(s, 1, k - 1) \o SubSeq(s, k + 1, Len(s))

\* start(), up to its await: the world query is sent and answered.  With no
\* running world start() returns without touching the engine.
Start ==
  /\ nStarts < budget.starts
  /\ nStarts' = nStarts + 1
  /\ stopReturned' = FALSE
  /\ starts' = IF world.exists
               THEN Append(starts, [current_tick |-> world.current_tick,
                                    current_year |-> world.current_year,
                                    \* history: the call follows a stop()
                                    restart |-> stopReturned])
               ELSE starts
  /\ UNCHANGED << engineVars, timers, timersMade, bodies, cancels, storeVars,
                  budget, neighborMap, submits, nSubmits, nFires, nStops, nFails, nCancels, executed, caught, logVars >>

\* start(), after its await: the counters are set from the row that was
\* read and a new periodic timer is armed.
StartResume(k) ==
  /\ k \in 1..Len(starts)
  /\ worldId' = 1
  /\ currentTick' = starts[k].current_tick
  /\ currentYear' = starts[k].current_year
  /\ isRunning' = TRUE
  /\ timersMade' = timersMade + 1
  /\ timers' = timers \cup {timersMade + 1}
  /\ tickInterval' = timersMade + 1
  /\ starts' = RemoveAt(starts, k)
  /\ UNCHANGED << bodies, cancels, storeVars, histVars >>

\* A variant of Stop: stopping also clears the counters.
StopResets ==
  /\ nStops < budget.stops
  /\ nStops' = nStops + 1
  /\ stopReturned' = TRUE
  /\ timers' = IF tickInterval # 0 THEN timers \ {tickInterval} ELSE timers
  /\ tickInterval' = 0
  /\ isRunning' = FALSE
  /\ currentTick' = 0
  /\ currentYear' = 0
  /\ UNCHANGED << worldId, timersMade, starts, bodies,
                  cancels, storeVars, budget, neighborMap, submits, nSubmits, nFires, nStarts, nFails, nCancels,
                  executed, caught, logVars >>

\* stop()
Stop ==
  /\ nStops < budget.stops
  /\ nStops' = nStops + 1
  /\ stopReturned' = TRUE
  /\ timers' = IF tickInterval # 0 THEN timers \ {tickInterval} ELSE timers
  /\ tickInterval' = 0
  /\ isRunning' = FALSE
  /\ UNCHANGED << currentTick, currentYear, worldId, timersMade, starts, bodies,
                  cancels, storeVars, budget, neighborMap, submits, nSubmits, nFires, nStarts, nFails, nCancels,
                  executed, caught, logVars >>

\* A variant of NextPc: conflicts are resolved first and the migrations are
\* left out.
NextPcConflictFirst(after, isYearEnd) ==
  IF isYearEnd /\ after = 0 THEN "processConflicts"
  ELSE IF isYearEnd /\ after < Len(PhaseOrder) THEN PhaseOrder[after + 1] ELSE "persist"

\* The phase a tick body enters after the per-population pass (after = 0) or
\* after the yearly phase PhaseOrder[after].
NextPc(after, isYearEnd) ==
  IF isYearEnd /\ after < Len(PhaseOrder) THEN PhaseOrder[after + 1] ELSE "persist"

PhaseIndex(ph) == CHOOSE k \in 1..Len(PhaseOrder) : PhaseOrder[k] = ph

\* The body leaves the phase it is in (0: the per-population pass) and enters
\* the next one, with its loop index at the first element.
Enter(body, after) ==
  LET next == NextPc(after, body.isYearEnd)
  IN [body EXCEPT !.pc = next, !.i = 1,
                  !.begun = IF next = "persist" THEN @ ELSE Append(@, next),
                  !.ended = IF after = 0 THEN @ ELSE Append(@, PhaseOrder[after])]

\* A variant of YearAfter: the year is never advanced.
YearKept(tick, year) == year

\* tick(), lines 80-84: the year after the tick counter has become `tick`.
YearAfter(tick, year) == IF tick % TICKS_PER_YEAR = 0 THEN year + 1 ELSE year

\* A firing of an armed timer calls tick(): nothing when the engine has no
\* world or is not running; otherwise the counters advance and the body
\* starts with its first store call pending.
Fire(t, b) ==
  /\ t \in timers
  /\ nFires < budget.fires
  /\ nFires' = nFires + 1
  /\ IF worldId = 0 \/ ~isRunning
     THEN /\ b = 1
          /\ UNCHANGED << engineVars, bodies, executed >>
     ELSE /\ b <= budget.inFlight
          /\ bodies[b].pc = "idle"
          /\ \A c \in Slots : c < b => bodies[c].pc # "idle"
          /\ currentTick' = currentTick + 1
          /\ currentYear' = YearAfter(currentTick + 1, currentYear)
          /\ bodies' = [bodies EXCEPT ![b] =
               [IdleBody EXCEPT !.pc = "getPopulations",
                                !.tickNo = currentTick + 1,
                                !.isYearEnd = ((currentTick + 1) % TICKS_PER_YEAR = 0)]]
          /\ executed' = Append(executed, currentTick + 1)
          /\ UNCHANGED << tickInterval, worldId, isRunning >>
  /\ UNCHANGED << runtimeVars, cancels, storeVars, budget, neighborMap, submits, nSubmits, nStarts, nStops, nFails,
                  nCancels, stopReturned, caught, logVars >>

\* ------------------------------------------------------------ tick body
\* A number the engine computed, kept exactly: n / d.
Rat(n, d) == [n |-> n, d |-> d]
IsInt(q) == q.n % q.d = 0
IntOf(q) == q.n \div q.d
Clamp(lo, v, hi) == Max(lo, Min(hi, v))

\* A query parameter bound to an INTEGER or BIGINT column is read as an
\* integer literal: the store rejects a value with a fraction and the
\* awaited call throws.
PgInt(q) == IsInt(q)

\* An SQL expression of type numeric assigned to an INTEGER or BIGINT
\* column is rounded to the nearest integer, halves away from zero.
PgRound(q) ==
  IF q.n >= 0 THEN (2 * q.n + q.d) \div (2 * q.d)
  ELSE -((2 * (-q.n) + q.d) \div (2 * q.d))

\* What getPopulations() returns: every populations row, with its id.
getPopulations ==
  [k \in 1..Len(populations) |->
     [ id |-> k, cell_id |-> populations[k].cell_id,
       civilization_id |-> populations[k].civilization_id,
       population_size |-> populations[k].population_size,
       tech_level |-> populations[k].tech_level,
       stability |-> populations[k].stability,
       prosperity |-> populations[k].prosperity,
       education |-> populations[k].education,
       ideology_collectivism |-> populations[k].ideology_collectivism,
       ideology_tradition |-> populations[k].ideology_tradition ]]

RECURSIVE SumCollectivism(_)
SumCollectivism(ps) ==
  IF ps = << >> THEN 0 ELSE Head(ps).ideology_collectivism + SumCollectivism(Tail(ps))

\* A variant of NeighborPops: the neighbours are read from the store.
NeighborPopsStored(pops, pop) ==
  LET near == Neighbors(CellById(pop.cell_id))
      InNear(p) == \E k \in 1..Len(near) : near[k].id = p.cell_id
  IN SelectSeq(getPopulations, InNear)

\* tick(), lines 98-99: the populations of the snapshot that live in a cell
\* next to pop's cell.
NeighborPops(pops, pop) ==
  LET near == Neighbors(CellById(pop.cell_id))
      InNear(p) == \E k \in 1..Len(near) : near[k].id = p.cell_id
  IN SelectSeq(pops, InNear)

\* updatePopulation, lines 181-251: the values it computes for one
\* population from the row of the snapshot, its cell and its neighbours.
\* rJitter, rEducation and rTech are the three Math.random() draws.
UpdatePopulation(pop, cell, neighbors, isYearEnd, rJitter, rEducation, rTech) ==
  LET cap == calculateCarryingCapacity(cell, pop.tech_level)
      size == pop.population_size
      tech == pop.tech_level
      \* crowdingFactor = size / cap, compared without dividing
      crowded == size > cap
      \* effectiveBirthRate = 0.02 * prosperity / 50 * (1 + tech * 0.02)
      \*                    = prosperity * (50 + tech) / 125000
      x == size * pop.prosperity * (50 + tech)
      \* ... * max(0.5, 1 - (crowdingFactor - 1) * 0.2) when crowded
      halved == 2 * (6 * cap - size) <= 5 * cap
      birthsPerTick ==
        IF ~crowded THEN x \div 7500000
        ELSE IF halved THEN x \div 15000000
        ELSE MulDiv(x, 6 * cap - size, 5 * cap) \div 7500000
      \* effectiveDeathRate = (0.015 + (crowdingFactor - 1) * 0.01 if crowded)
      \*                      * max(0.3, 1 - tech * 0.05) + 0.005 if climate
      \*                    = e / (4000 * cap)
      climate == cell.temperature < 0 \/ cell.temperature > 40
      e == (3 * cap + 2 * Max(0, size - cap)) * Max(6, 20 - tech)
             + (IF climate THEN 20 * cap ELSE 0)
      deathsPerTick == MulDiv(size, e, cap) \div 240000
      netChange == birthsPerTick - deathsPerTick
      grown == Max(0, size + netChange)
      \* floor(grown * (0.999 + random * 0.002))
      newPopulation == grown + ((grown * (rJitter - 500)) \div 500000)
      \* stability, in hundredths
      newStability ==
        Clamp(0, 100 * pop.stability
                   - (IF pop.prosperity < 30 THEN 10 ELSE 0)
                   + (IF pop.prosperity > 70 THEN 5 ELSE 0), 10000)
      \* prosperity, in hundredths
      newProsperity ==
        Clamp(0, 100 * pop.prosperity
                   + (IF 10 * size < 8 * cap /\ tech > 2 THEN 5 ELSE 0)
                   - (IF 10 * size > 12 * cap THEN 10 ELSE 0), 10000)
      \* education, in two-thousandths: + random * 0.5
      learns == isYearEnd /\ pop.stability > 50 /\ pop.prosperity > 40
      newEducation ==
        IF learns THEN Min(200000, 2000 * pop.education + rEducation)
        ELSE 2000 * pop.education
      \* random < 0.01 * education / 100
      advances == isYearEnd /\ pop.education > (tech + 1) * 10
                    /\ 10 * rTech < pop.education
      newTechLevel == IF advances THEN Min(MAX_TECH, tech + 1) ELSE tech
      n == Len(neighbors)
      c == pop.ideology_collectivism
      \* c + (avg - c) * 0.001 with avg = sum / n
      newCollectivism ==
        IF n > 0 THEN Rat(1000 * n * c + SumCollectivism(neighbors) - n * c, 1000 * n)
        ELSE Rat(c, 1)
  IN [ population_size |-> Rat(newPopulation, 1),
       stability |-> Rat(newStability, 100),
       prosperity |-> Rat(newProsperity, 100),
       education |-> Rat(newEducation, 2000),
       tech_level |-> Rat(newTechLevel, 1),
       ideology_collectivism |-> newCollectivism,
       advances |-> advances ]

\* The UPDATE of updatePopulation, lines 253-258: six columns of the row are
\* set to the parameters.
WritePopulation(rows, id, new) ==
  [rows EXCEPT ![id] =
     [@ EXCEPT !.population_size = IntOf(new.population_size),
               !.stability = IntOf(new.stability),
               !.prosperity = IntOf(new.prosperity),
               !.education = IntOf(new.education),
               !.tech_level = IntOf(new.tech_level),
               !.ideology_collectivism = IntOf(new.ideology_collectivism)]]

Accepted(new) ==
  /\ PgInt(new.population_size) /\ PgInt(new.stability) /\ PgInt(new.prosperity)
  /\ PgInt(new.education) /\ PgInt(new.tech_level) /\ PgInt(new.ideology_collectivism)

\* History: what a tick body that threw leaves behind.  gained is the
\* change of the stored people since processMigrations began, for a body
\* that threw inside processMigrations; unreached is the number of events
\* the event pass had read and not yet deactivated or applied when it threw;
\* pending is the number of experiments it leaves pending.
CaughtRecord(body) ==
  [ tickNo |-> body.tickNo, wrote |-> body.wrote, isYearEnd |-> body.isYearEnd,
    ended |-> body.ended, pc |-> body.pc,
    gained |-> IF body.pc \in {"processMigrations", "migrationSource"}
               THEN SumOf(populations, "population_size") - body.sumBefore ELSE 0,
    unreached |-> IF body.pc = "applyEvent" THEN Len(body.events) + 1 - body.i ELSE 0,
    pending |-> Cardinality({k \in 1..Len(experiments) : experiments[k].status = "pending"}) ]

\* A variant of Caught: the catch block stops the engine.
CaughtStops(b) ==
  /\ bodies' = [bodies EXCEPT ![b] = IdleBody]
  /\ caught' = Append(caught, CaughtRecord(bodies[b]))
  /\ isRunning' = FALSE
  /\ tickInterval' = 0
  /\ UNCHANGED << currentTick, currentYear, worldId, logVars >>

\* A variant of Caught: the catch block takes the tick back.
CaughtRollsBack(b) ==
  /\ bodies' = [bodies EXCEPT ![b] = IdleBody]
  /\ caught' = Append(caught, CaughtRecord(bodies[b]))
  /\ currentTick' = currentTick - 1
  /\ UNCHANGED << tickInterval, currentYear, worldId, isRunning, logVars >>

\* The catch block of tick(), lines 135-137: the error is logged, nothing
\* else; the frame is gone.
Caught(b) ==
  /\ bodies' = [bodies EXCEPT ![b] = IdleBody]
  /\ caught' = Append(caught, CaughtRecord(bodies[b]))
  /\ UNCHANGED << engineVars, logVars >>

\* The same catch block after a step that has sent a notification.
Thrown(b) ==
  /\ bodies' = [bodies EXCEPT ![b] = IdleBody]
  /\ caught' = Append(caught, CaughtRecord(bodies[b]))
  /\ UNCHANGED engineVars

\* The body returns.
Finish(b) ==
  /\ bodies' = [bodies EXCEPT ![b] = IdleBody]
  /\ UNCHANGED << engineVars, caught >>

\* The body returns, with nothing sent or persisted in the step.
Return(b) == Finish(b) /\ UNCHANGED logVars

\* The body goes on as frame `body`; the history notes whether the step
\* changed the store.
Resume(b, body) ==
  /\ bodies' = [bodies EXCEPT ![b] =
                  [body EXCEPT !.wrote = @ \/ (storeVars' # storeVars),
                               !.sumBefore =
                                 IF /\ body.pc = "processMigrations"
                                    /\ bodies[b].pc \notin {"processMigrations", "migrationSource"}
                                 THEN SumOf(populations', "population_size")
                                 ELSE @]]
  /\ UNCHANGED << engineVars, caught >>

\* The body goes on, with nothing sent or persisted in the step.
Continue(b, body) == Resume(b, body) /\ UNCHANGED logVars

\* tick(), lines 88-91: the populations and the cells are read.
GetPopulations(b) ==
  /\ bodies[b].pc = "getPopulations"
  /\ UNCHANGED storeVars
  /\ LET body == [bodies[b] EXCEPT !.populations = getPopulations]
     IN IF Len(getPopulations) = 0
        THEN Continue(b, Enter(body, 0))
        ELSE Continue(b, [body EXCEPT !.pc = "updatePopulation", !.i = 1])
  /\ UNCHANGED bodyFrame

\* updatePopulation, lines 234-246: with a tech advancement drawn, the
\* techAdvancement notification is sent, before the UPDATE of the row.
EmitTechAdvancement(body, pop, new) ==
  IF new.advances
  THEN Append(emitted, [type |-> "techAdvancement", id |-> pop.id,
                        from |-> pop.tech_level,
                        tech_level |-> IntOf(new.tech_level),
                        tickNo |-> body.tickNo])
  ELSE emitted

\* tick(), lines 94-102: one turn of the per-population loop.
UpdatePopulationStep(b) ==
  /\ bodies[b].pc = "updatePopulation"
  /\ LET body == bodies[b]
         pop == body.populations[body.i]
     IN \E rJitter \in Rand, rEducation \in Rand, rTech \in Rand :
          LET neighborPops == NeighborPops(body.populations, pop)
              new == UpdatePopulation(pop, CellById(pop.cell_id), neighborPops,
                                      body.isYearEnd, rJitter, rEducation, rTech)
              next == [body EXCEPT !.seen = neighborPops]
          IN IF Accepted(new)
             THEN /\ populations' = WritePopulation(populations, pop.id, new)
                  /\ UNCHANGED butPopulations
                  /\ emitted' = EmitTechAdvancement(body, pop, new)
                  /\ UNCHANGED persisted
                  /\ IF body.i = Len(body.populations)
                     THEN Resume(b, Enter(next, 0))
                     ELSE Resume(b, [next EXCEPT !.i = @ + 1])
             ELSE /\ UNCHANGED storeVars
                  /\ IF new.advances
                     THEN /\ emitted' = EmitTechAdvancement(body, pop, new)
                          /\ UNCHANGED persisted
                          /\ Thrown(b)
                     ELSE Caught(b)
  /\ UNCHANGED bodyFrame

\* History: a yearly phase computes with the size that `pop`, a row of its
\* array `pops`, carries, while the store holds `stored` for that row and
\* `rows` rows in all.
Used(phase, pops, pop) ==
  [ phase |-> phase, id |-> pop.id, size |-> pop.population_size,
    stored |-> populations[pop.id].population_size,
    seen |-> Len(pops), rows |-> Len(populations) ]

\* ------------------------------------------------------ processMigrations
\* populations.find(p => p.cell_id === cellId): the first row of the
\* snapshot in that cell, 0 when there is none.
FindInCell(pops, cellId) ==
  LET hits == {k \in 1..Len(pops) : pops[k].cell_id = cellId}
  IN IF hits = {} THEN 0 ELSE CHOOSE k \in hits : \A h \in hits : k <= h

\* processMigrations, lines 283-288: the neighbour cells a population may
\* send migrants to.
emptyOrLessPopulated(pops, pop) ==
  LET cell == CellById(pop.cell_id)
      carryingCap == calculateCarryingCapacity(cell, pop.tech_level)
      Ok(n) == LET k == FindInCell(pops, n.id)
               IN IF k = 0 THEN n.biome # "ocean"
                  ELSE 2 * pops[k].population_size < carryingCap /\ n.biome # "ocean"
  IN SelectSeq(Neighbors(cell), Ok)

\* processMigrations, lines 275-290: whether the population sends migrants.
Migrates(pops, pop) ==
  LET carryingCap == calculateCarryingCapacity(CellById(pop.cell_id), pop.tech_level)
  IN /\ ~(pop.population_size < MIGRATION_MIN_SIZE)
     /\ ~(10 * pop.population_size < 9 * carryingCap)
     /\ Len(emptyOrLessPopulated(pops, pop)) > 0

\* The first index >= from whose population migrates, 0 when there is none.
NextMigrant(pops, from) ==
  LET hits == {k \in from..Len(pops) : Migrates(pops, pops[k])}
  IN IF hits = {} THEN 0 ELSE CHOOSE k \in hits : \A h \in hits : k <= h

\* The row the INSERT of lines 305-308 makes; education is a parameter
\* (0.8 * the source's education) bound to an INTEGER column.
NewSettlement(pop, target, migrants) ==
  PopRow(target, pop.civilization_id, migrants, Max(0, pop.tech_level - 1), 50, 40,
         (4 * pop.education) \div 5)

\* processMigrations, lines 274-309: the loop runs on to the next population
\* that migrates, draws its target and sends the first store call, which
\* adds the migrants to the first population found in the target cell or
\* inserts a new row.
ProcessMigrations(b) ==
  /\ bodies[b].pc = "processMigrations"
  /\ LET body == bodies[b]
         pops == body.populations
         j == NextMigrant(pops, body.i)
     IN IF j = 0
        THEN /\ UNCHANGED storeVars
             /\ Continue(b, Enter(body, 1))
        ELSE \E r \in Rand :
               LET pop == pops[j]
                   cands == emptyOrLessPopulated(pops, pop)
                   target == cands[((r * Len(cands)) \div 1000) + 1]
                   migrants == pop.population_size \div 10
                   existingPop == FindInCell(pops, target.id)
                   next == [body EXCEPT !.pc = "migrationSource", !.i = j,
                                        !.target = target.id, !.migrants = migrants,
                                        !.existingPop = IF existingPop = 0 THEN 0
                                                        ELSE pops[existingPop].id,
                                        !.used = Append(@, Used("processMigrations", pops, pop))]
               IN IF existingPop # 0
                  THEN /\ populations' =
                            [populations EXCEPT ![pops[existingPop].id].population_size =
                                                   @ + migrants]
                       /\ UNCHANGED butPopulations
                       /\ Continue(b, next)
                  ELSE IF PgInt(Rat(4 * pop.education, 5))
                  THEN /\ populations' = Append(populations,
                                                NewSettlement(pop, target.id, migrants))
                       /\ UNCHANGED butPopulations
                       /\ Continue(b, next)
                  ELSE /\ UNCHANGED storeVars
                       /\ Caught(b)
  /\ UNCHANGED bodyFrame

\* processMigrations, lines 311-322: the source row loses the migrants.
MigrationSource(b) ==
  /\ bodies[b].pc = "migrationSource"
  /\ LET body == bodies[b]
         pop == body.populations[body.i]
     IN /\ populations' = [populations EXCEPT ![pop.id].population_size =
                                                @ - body.migrants]
        /\ UNCHANGED butPopulations
        /\ Continue(b, [body EXCEPT !.pc = "processMigrations", !.i = @ + 1,
                                    !.target = 0, !.migrants = 0,
                                    !.existingPop = 0])
  /\ UNCHANGED bodyFrame

\* ------------------------------------------------------- processConflicts
\* processConflicts, lines 329-341: the cells, in the order their first
\* population appears, that hold two populations of different civilizations.
ConflictCells(pops) ==
  LET Group(c) == {k \in 1..Len(pops) : pops[k].cell_id = c}
      First(k) == \A h \in 1..(k - 1) : pops[h].cell_id # pops[k].cell_id
      Contested(p) ==
        /\ Cardinality(Group(p.cell_id)) >= 2
        /\ Cardinality({pops[k].civilization_id : k \in Group(p.cell_id)}) >= 2
      F[k \in 0..Len(pops)] ==
        IF k = 0 THEN << >>
        ELSE F[k - 1] \o (IF First(k) /\ Contested(pops[k])
                          THEN << pops[k].cell_id >> ELSE << >>)
  IN F[Len(pops)]

\* lines 344-346, in thousandths; every row carries the column defaults of
\* war_tendency and ideology_xenophobia.
conflictChance == ((DEFAULT_WAR_TENDENCY + DEFAULT_XENOPHOBIA) * 1000) \div 200

\* lines 350-352: pops.sort by size, descending and stable; the indices of
\* the first and the second row of the sorted group.
Winner(pops, cellId) ==
  LET group == {k \in 1..Len(pops) : pops[k].cell_id = cellId}
  IN CHOOSE w \in group :
       \A k \in group : \/ pops[w].population_size > pops[k].population_size
                        \/ (pops[w].population_size = pops[k].population_size /\ w <= k)

Loser(pops, cellId) ==
  LET group == {k \in 1..Len(pops) : pops[k].cell_id = cellId} \ {Winner(pops, cellId)}
  IN CHOOSE w \in group :
       \A k \in group : \/ pops[w].population_size > pops[k].population_size
                        \/ (pops[w].population_size = pops[k].population_size /\ w <= k)

\* A variant of ConflictUpdate: the fight rallies the population, its
\* stability rises.
ConflictUpdateRallies(rows, id, losses, stabilityLoss) ==
  [rows EXCEPT ![id] = [@ EXCEPT !.population_size = @ - losses,
                                 !.stability = @ + stabilityLoss]]

\* The UPDATE of lines 357 and 358: size and stability are lowered in place.
ConflictUpdate(rows, id, losses, stabilityLoss) ==
  [rows EXCEPT ![id] = [@ EXCEPT !.population_size = @ - losses,
                                 !.stability = @ - stabilityLoss]]

WINNER_STABILITY_LOSS == 10
LOSER_STABILITY_LOSS == 20

\* processConflicts, lines 336-357: the loop over the contested cells; a
\* draw below the chance starts a conflict and the winner's row is updated.
ProcessConflicts(b) ==
  /\ bodies[b].pc = "processConflicts"
  /\ LET body == bodies[b]
         pops == body.populations
         conflictCells == ConflictCells(pops)
     IN IF body.i > Len(conflictCells)
        THEN /\ UNCHANGED storeVars
             /\ Continue(b, Enter(body, 2))
        ELSE \E r \in Rand :
               IF r < conflictChance
               THEN LET w == Winner(pops, conflictCells[body.i])
                        l == Loser(pops, conflictCells[body.i])
                        winnerLosses == pops[w].population_size \div 20
                        loserLosses == (3 * pops[l].population_size) \div 20
                    IN /\ populations' = ConflictUpdate(populations, pops[w].id,
                                                        winnerLosses, WINNER_STABILITY_LOSS)
                       /\ UNCHANGED butPopulations
                       /\ Continue(b, [body EXCEPT
                            !.pc = "conflictLoser", !.winner = w, !.loser = l,
                            !.losses = loserLosses,
                            !.used = @ \o << Used("processConflicts", pops, pops[w]),
                                             Used("processConflicts", pops, pops[l]) >>])
               ELSE /\ UNCHANGED storeVars
                    /\ Continue(b, [body EXCEPT !.i = @ + 1])
  /\ UNCHANGED bodyFrame

\* processConflicts, line 358: the loser's row is updated.
ConflictLoser(b) ==
  /\ bodies[b].pc = "conflictLoser"
  /\ LET body == bodies[b]
     IN /\ populations' = ConflictUpdate(populations, body.populations[body.loser].id,
                                         body.losses, LOSER_STABILITY_LOSS)
        /\ UNCHANGED butPopulations
        /\ Continue(b, [body EXCEPT !.pc = "conflictLog"])
  /\ UNCHANGED bodyFrame

\* processConflicts, lines 369-372: the conflict is logged as an inactive
\* event of the cell, starting at the engine's current tick.
ConflictLog(b) ==
  /\ bodies[b].pc = "conflictLog"
  /\ LET body == bodies[b]
         cellId == body.populations[body.winner].cell_id
     IN /\ events' = Append(events,
                            EventRow("conflict", "cell", cellId, 0, currentTick, 0, FALSE))
        /\ UNCHANGED butEvents
        /\ Continue(b, [body EXCEPT !.pc = "processConflicts", !.i = @ + 1,
                                    !.winner = 0, !.loser = 0, !.losses = 0])
  /\ UNCHANGED bodyFrame

\* ------------------------------------------------------ processTechSpread
\* processTechSpread, lines 383-393: the pairs (population, population of a
\* neighbour cell) with a tech gap above 1, in the order of the three loops.
TechPairs(pops) ==
  LET For(k) ==
        LET near == Neighbors(CellById(pops[k].cell_id))
            Behind(p) == pops[k].tech_level > p.tech_level + 1
            In(c) == LET Here(p) == p.cell_id = near[c].id /\ Behind(p)
                         hit == SelectSeq(pops, Here)
                     IN [h \in 1..Len(hit) |-> << k, hit[h].id, pops[k].tech_level - hit[h].tech_level >>]
            G[c \in 0..Len(near)] == IF c = 0 THEN << >> ELSE G[c - 1] \o In(c)
        IN G[Len(near)]
      F[k \in 0..Len(pops)] == IF k = 0 THEN << >> ELSE F[k - 1] \o For(k)
  IN F[Len(pops)]

\* processTechSpread, lines 395-397: a draw below 0.001 * gap raises the
\* neighbour's education by 1 in place.
ProcessTechSpread(b) ==
  /\ bodies[b].pc = "processTechSpread"
  /\ LET body == bodies[b]
         pairs == TechPairs(body.populations)
     IN IF body.i > Len(pairs)
        THEN /\ UNCHANGED storeVars
             /\ Continue(b, Enter(body, 3))
        ELSE \E r \in Rand :
               /\ IF r < pairs[body.i][3]
                  THEN /\ populations' = [populations EXCEPT
                                            ![pairs[body.i][2]].education = @ + 1]
                       /\ UNCHANGED butPopulations
                  ELSE UNCHANGED storeVars
               /\ Continue(b, [body EXCEPT !.i = @ + 1])
  /\ UNCHANGED bodyFrame

\* ---------------------------------------------------------- processEvents
\* WHERE cell_id = $1 (WHERE civilization_id = $1): the rows an UPDATE of
\* the populations changes.
InCell(rows, cellId) == {k \in 1..Len(rows) : rows[k].cell_id = cellId}
OfCiv(rows, civId) == {k \in 1..Len(rows) : rows[k].civilization_id = civId}

\* applyGoldenAge, lines 440-447
applyGoldenAge(rows, event) ==
  LET F(r) == [r EXCEPT !.prosperity = PgRound(Rat(Min(200, 2 * @ + 1), 2)),
                        !.education = PgRound(Rat(Min(500, 5 * @ + 1), 5))]
      hit == OfCiv(rows, event.target_civ_id)
  IN [k \in 1..Len(rows) |-> IF k \in hit THEN F(rows[k]) ELSE rows[k]]

\* applyFamine, lines 449-459
applyFamine(rows, event) ==
  LET F(r) == [r EXCEPT !.population_size = PgRound(Rat(Max(0, 99 * @), 100)),
                        !.prosperity = Max(0, @ - 1),
                        !.stability = PgRound(Rat(Max(0, 2 * @ - 1), 2))]
      hit == InCell(rows, event.target_cell_id)
  IN [k \in 1..Len(rows) |-> IF k \in hit THEN F(rows[k]) ELSE rows[k]]

\* applyPlague, lines 461-468
applyPlague(rows, event) ==
  LET F(r) == [r EXCEPT !.population_size = PgRound(Rat(Max(0, 95 * @), 100))]
      hit == InCell(rows, event.target_cell_id)
  IN [k \in 1..Len(rows) |-> IF k \in hit THEN F(rows[k]) ELSE rows[k]]

\* The switch of processEvents, lines 420-431.
ApplyEventEffect(rows, event) ==
  CASE event.type = "golden_age" -> applyGoldenAge(rows, event)
    [] event.type = "famine" -> applyFamine(rows, event)
    [] event.type = "plague" -> applyPlague(rows, event)
    [] OTHER -> rows

EventHasHandler(event) == event.type \in {"golden_age", "famine", "plague"}

\* line 414: the event has an end and the engine's tick has reached it.
\* A variant of EventEnded: the event lasts through its end tick.
EventEndedLate(event, tick) == event.end_tick # 0 /\ tick > event.end_tick

EventEnded(event, tick) == event.end_tick # 0 /\ tick >= event.end_tick

\* processEvents, lines 407-410: the active events are read.
ProcessEvents(b) ==
  /\ bodies[b].pc = "processEvents"
  /\ UNCHANGED storeVars
  /\ LET ids == SelectSeq([k \in 1..Len(events) |-> k], LAMBDA k : events[k].is_active)
         rows == [h \in 1..Len(ids) |->
                    [id |-> ids[h], type |-> events[ids[h]].type,
                     target_cell_id |-> events[ids[h]].target_cell_id,
                     target_civ_id |-> events[ids[h]].target_civ_id,
                     end_tick |-> events[ids[h]].end_tick]]
     IN Continue(b, [bodies[b] EXCEPT !.pc = "applyEvent", !.i = 1, !.events = rows,
                                      !.dispatched = << >>, !.deactivated = << >>])
  /\ UNCHANGED bodyFrame

RANDOM_EVENT_CHANCE == 1   \* 0.001, in thousandths
RandomEventTypes == << "golden_age", "resource_discovery", "natural_disaster" >>

\* processEvents, lines 412-437: one turn of the loop over the events that
\* were read, and after the last one the draw for a random event.
ApplyEvent(b) ==
  /\ bodies[b].pc = "applyEvent"
  /\ LET body == bodies[b]
     IN IF body.i <= Len(body.events)
        THEN LET event == body.events[body.i]
             IN IF EventEnded(event, currentTick)
                THEN /\ events' = [events EXCEPT ![event.id].is_active = FALSE]
                     /\ UNCHANGED butEvents
                     /\ Continue(b, [body EXCEPT !.i = @ + 1,
                                                 !.deactivated = Append(@, event.id)])
                ELSE /\ populations' = ApplyEventEffect(populations, event)
                     /\ UNCHANGED butPopulations
                     /\ Continue(b, [body EXCEPT !.i = @ + 1,
                                                 !.dispatched = Append(@, event.id)])
        ELSE /\ UNCHANGED storeVars
             /\ \E r \in Rand :
                  IF r < RANDOM_EVENT_CHANCE
                  THEN Continue(b, [body EXCEPT !.pc = "generateRandomEvent", !.events = << >>])
                  ELSE Continue(b, [Enter(body, 4) EXCEPT !.events = << >>])
  /\ UNCHANGED bodyFrame

\* generateRandomEvent, lines 471-489: a type and a civilization are drawn
\* and the event is inserted, active, for ten years from the engine's tick.
GenerateRandomEvent(b) ==
  /\ bodies[b].pc = "generateRandomEvent"
  /\ \E rType \in Rand, rCiv \in Rand :
       LET eventType == RandomEventTypes[((rType * Len(RandomEventTypes)) \div 1000) + 1]
           civs == [k \in 1..Cardinality(Civilizations) |-> k]
           targetCiv == civs[((rCiv * Len(civs)) \div 1000) + 1]
       IN events' = Append(events,
                      EventRow(eventType, "civilization", 0, targetCiv, currentTick,
                               currentTick + TICKS_PER_YEAR * EVENT_DURATION_YEARS, TRUE))
  /\ UNCHANGED butEvents
  /\ Continue(b, Enter(bodies[b], 4))
  /\ UNCHANGED bodyFrame

\* ------------------------------------------------------ resolveExperiments
\* The (category, type) pairs the five switch statements of lines 549-674
\* have a case for.
Handlers ==
  { << "biological", "seed_species" >>, << "biological", "pandemic" >>,
    << "technological", "uplift" >>, << "technological", "gift_knowledge" >>,
    << "sociopolitical", "ideology_nudge" >>, << "sociopolitical", "prophetic_vision" >>,
    << "catastrophic", "meteor" >>, << "catastrophic", "supervolcano" >>,
    << "playful", "crop_circles" >>, << "playful", "miracle" >> }

\* A variant of HasHandler: every type is taken to have a handler.
HasHandlerAny(exp) == exp.category # ""

HasHandler(exp) == << exp.category, exp.type >> \in Handlers

\* The UPDATE populations ... WHERE cell_id = target_id of each handler, with
\* no parameters given (the defaults of lines 563, 602 and 603).
ExperimentEffect(rows, exp) ==
  LET uplift(r) == [r EXCEPT !.tech_level = Min(MAX_TECH, @ + 1),
                             !.stability = Max(0, @ - 10),
                             !.education = Min(100, @ + 20)]
      gift_knowledge(r) == [r EXCEPT !.education = Min(100, @ + 30)]
      ideology_nudge(r) == [r EXCEPT !.ideology_collectivism = Max(0, Min(100, @ + 5))]
      prophetic_vision(r) == [r EXCEPT !.ideology_tradition = Max(0, Min(100, @ + 15)),
                                       !.stability = Max(0, @ - 5)]
      meteor(r) == [r EXCEPT !.population_size = PgRound(Rat(Max(0, 3 * @), 10)),
                             !.stability = 0, !.prosperity = 0]
      supervolcano(r) == [r EXCEPT !.population_size = PgRound(Rat(Max(0, @), 2)),
                                   !.prosperity = Max(0, @ - 50)]
      crop_circles(r) == [r EXCEPT !.ideology_tradition = Min(100, @ + 5),
                                   !.stability = Max(0, @ - 2)]
      miracle(r) == [r EXCEPT !.prosperity = Min(100, @ + 10),
                              !.ideology_tradition = Min(100, @ + 10)]
      hit == InCell(rows, exp.target_id)
      On(F(_)) == [k \in 1..Len(rows) |-> IF k \in hit THEN F(rows[k]) ELSE rows[k]]
  IN CASE exp.type = "uplift" -> On(uplift)
       [] exp.type = "gift_knowledge" -> On(gift_knowledge)
       [] exp.type = "ideology_nudge" -> On(ideology_nudge)
       [] exp.type = "prophetic_vision" -> On(prophetic_vision)
       [] exp.type = "meteor" -> On(meteor)
       [] exp.type = "supervolcano" -> On(supervolcano)
       [] exp.type = "crop_circles" -> On(crop_circles)
       [] exp.type = "miracle" -> On(miracle)
       [] OTHER -> rows

\* pandemic, lines 563-567: the default lethality 0.1 is the parameter of
\* population_size * (1 - $1), which the store types as an integer.
EffectRejected(exp) == exp.type = "pandemic" /\ ~PgInt(Rat(1, 10))

\* seed_species, lines 553-558, with no species_id given: a row with a NULL
\* species, which conflicts with no row.
SeedSpecies(rows, exp) ==
  Append(rows, [cell_id |-> exp.target_id, species_id |-> 0, population_density |-> 100])

\* updatePlayerReputation, lines 679-699: (benevolence, mischief, curiosity)
ReputationDelta(category) ==
  CASE category = "biological" -> << 0, 0, 3 >>
    [] category = "technological" -> << 2, 0, 1 >>
    [] category = "catastrophic" -> << -2, 5, 1 >>
    [] category = "playful" -> << 0, 2, 3 >>
    [] category = "sociopolitical" -> << 0, 0, 2 >>
    [] OTHER -> << 0, 0, 1 >>

\* resolveExperiments, lines 493-496: the pending experiments are read.
ResolveExperiments(b) ==
  /\ bodies[b].pc = "resolveExperiments"
  /\ UNCHANGED storeVars
  /\ LET ids == SelectSeq([k \in 1..Len(experiments) |-> k],
                          LAMBDA k : experiments[k].status = "pending")
         rows == [h \in 1..Len(ids) |->
                    [id |-> ids[h], player_id |-> experiments[ids[h]].player_id,
                     category |-> experiments[ids[h]].category,
                     type |-> experiments[ids[h]].type,
                     target_id |-> experiments[ids[h]].target_id]]
     IN IF Len(rows) = 0
        THEN Continue(b, Enter(bodies[b], 5))
        ELSE Continue(b, [bodies[b] EXCEPT !.pc = "executeExperiment", !.i = 1,
                                           !.pending = rows])
  /\ UNCHANGED bodyFrame

\* The body has finished the experiment at its loop index.
NextExperiment(body) ==
  IF body.i = Len(body.pending)
  THEN [Enter(body, 5) EXCEPT !.pending = << >>, !.result = FALSE]
  ELSE [body EXCEPT !.pc = "executeExperiment", !.i = @ + 1, !.result = FALSE]

\* executeExperiment, lines 504-523: the handler of the experiment's
\* category and type runs its store call; with no handler the result is
\* { success: false } and no call is made.  A rejected call is caught by
\* executeExperiment itself.
ExecuteExperiment(b) ==
  /\ bodies[b].pc = "executeExperiment"
  /\ LET body == bodies[b]
         exp == body.pending[body.i]
     IN IF ~HasHandler(exp)
        THEN /\ UNCHANGED storeVars
             /\ Continue(b, [body EXCEPT !.pc = "markResolved", !.result = FALSE])
        ELSE IF EffectRejected(exp)
        THEN /\ UNCHANGED storeVars
             /\ Continue(b, [body EXCEPT !.pc = "markFailed"])
        ELSE IF exp.type = "seed_species"
        THEN /\ cellSpecies' = SeedSpecies(cellSpecies, exp)
             /\ UNCHANGED butCellSpecies
             /\ Continue(b, [body EXCEPT !.pc = "markResolved", !.result = TRUE])
        ELSE /\ populations' = ExperimentEffect(populations, exp)
             /\ UNCHANGED butPopulations
             /\ Continue(b, [body EXCEPT !.pc = "markResolved", !.result = TRUE])
  /\ UNCHANGED bodyFrame

\* executeExperiment, lines 525-538: the row is set to resolved, whatever
\* its status is by now; without success updatePlayerReputation returns at
\* once and the experiment is done.
\* A variant of MarkResolved: only a successful experiment is marked.
MarkResolvedOnSuccess(b) ==
  /\ bodies[b].pc = "markResolved"
  /\ LET body == bodies[b]
         exp == body.pending[body.i]
     IN /\ experiments' = IF body.result
                          THEN [experiments EXCEPT ![exp.id] =
                                  [@ EXCEPT !.status = "resolved", !.result = "success"]]
                          ELSE experiments
        /\ UNCHANGED butExperiments
        /\ IF body.result
           THEN Continue(b, [body EXCEPT !.pc = "updatePlayerReputation"])
           ELSE Continue(b, NextExperiment(body))
  /\ UNCHANGED bodyFrame

MarkResolved(b) ==
  /\ bodies[b].pc = "markResolved"
  /\ LET body == bodies[b]
         exp == body.pending[body.i]
     IN /\ experiments' = [experiments EXCEPT ![exp.id] =
              [@ EXCEPT !.status = "resolved",
                        !.result = IF body.result THEN "success" ELSE "failure"]]
        /\ UNCHANGED butExperiments
        /\ IF body.result
           THEN Continue(b, [body EXCEPT !.pc = "updatePlayerReputation"])
           ELSE Continue(b, NextExperiment(body))
  /\ UNCHANGED bodyFrame

\* updatePlayerReputation, lines 701-707
UpdatePlayerReputation(b) ==
  /\ bodies[b].pc = "updatePlayerReputation"
  /\ LET body == bodies[b]
         exp == body.pending[body.i]
         d == ReputationDelta(exp.category)
     IN /\ players' = [players EXCEPT ![exp.player_id] =
              [@ EXCEPT !.benevolence = @ + d[1], !.mischief = @ + d[2],
                        !.curiosity = @ + d[3], !.credited = Append(@, exp.id)]]
        /\ UNCHANGED butPlayers
        /\ Continue(b, NextExperiment(body))
  /\ UNCHANGED bodyFrame

\* A variant of MarkFailed: a failed experiment ends the pass.
MarkFailedEndsPass(b) ==
  /\ bodies[b].pc = "markFailed"
  /\ LET body == bodies[b]
         exp == body.pending[body.i]
     IN /\ experiments' = [experiments EXCEPT ![exp.id] =
              [@ EXCEPT !.status = "failed", !.result = "error"]]
        /\ UNCHANGED butExperiments
        /\ Continue(b, [Enter(body, 5) EXCEPT !.pending = << >>, !.result = FALSE])
  /\ UNCHANGED bodyFrame

\* executeExperiment, lines 540-546: the catch block sets the row to failed.
MarkFailed(b) ==
  /\ bodies[b].pc = "markFailed"
  /\ LET body == bodies[b]
         exp == body.pending[body.i]
     IN /\ experiments' = [experiments EXCEPT ![exp.id] =
              [@ EXCEPT !.status = "failed", !.result = "error"]]
        /\ UNCHANGED butExperiments
        /\ Continue(b, NextExperiment(body))
  /\ UNCHANGED bodyFrame

\* ----------------------------------------------------------- createSnapshot
\* getWorldStats, lines 720-738 (avg_tech_level in hundredths)
getWorldStats ==
  [ totalPopulation |-> SumOf(populations, "population_size"),
    numCivilizations |-> Cardinality({populations[k].civilization_id :
                                        k \in 1..Len(populations)}),
    avgTechLevel |-> IF Len(populations) = 0 THEN 0
                     ELSE PgRound(Rat(100 * SumOf(populations, "tech_level"),
                                      Len(populations))) ]

\* createSnapshot, line 711: the statistics are read.
CreateSnapshot(b) ==
  /\ bodies[b].pc = "createSnapshot"
  /\ UNCHANGED storeVars
  /\ Continue(b, [bodies[b] EXCEPT !.pc = "insertSnapshot", !.stats = getWorldStats])
  /\ UNCHANGED bodyFrame

\* createSnapshot, lines 713-716: a row is appended, with the engine's tick
\* and year as they are when the call is made.
InsertSnapshot(b) ==
  /\ bodies[b].pc = "insertSnapshot"
  /\ snapshots' = Append(snapshots,
                         [tick |-> currentTick, year |-> currentYear,
                          total_population |-> bodies[b].stats.totalPopulation,
                          num_civilizations |-> bodies[b].stats.numCivilizations,
                          avg_tech_level |-> bodies[b].stats.avgTechLevel])
  /\ UNCHANGED butSnapshots
  /\ Continue(b, [Enter(bodies[b], 6) EXCEPT !.stats = << >>])
  /\ UNCHANGED bodyFrame

\* ------------------------------------------------------------------ persist
\* tick(), lines 115-118: the engine's counters, as they are when the call
\* is made, are written to the world row.
Persist(b) ==
  /\ bodies[b].pc = "persist"
  /\ world' = [world EXCEPT !.current_tick = currentTick, !.current_year = currentYear]
  /\ UNCHANGED butWorld
  /\ persisted' = Append(persisted, [tick |-> currentTick, year |-> currentYear])
  /\ UNCHANGED emitted
  /\ Resume(b, [bodies[b] EXCEPT !.pc = "emitTick"])
  /\ UNCHANGED bodyFrame

\* tick(), lines 120-130: the UPDATE has resolved; the tick notification is
\* sent with the engine's counters as they are now, and on a year boundary
\* the statistics are asked for.
EmitTick(b) ==
  /\ bodies[b].pc = "emitTick"
  /\ UNCHANGED storeVars
  /\ emitted' = Append(emitted, [type |-> "tick", tick |-> currentTick,
                                 year |-> currentYear,
                                 isYearEnd |-> bodies[b].isYearEnd,
                                 tickNo |-> bodies[b].tickNo])
  /\ UNCHANGED persisted
  /\ IF bodies[b].isYearEnd
     THEN Resume(b, [bodies[b] EXCEPT !.pc = "yearUpdate"])
     ELSE Finish(b)
  /\ UNCHANGED bodyFrame

\* tick(), lines 128-134: the statistics have been read; the yearUpdate
\* notification is sent and the body returns.
YearUpdate(b) ==
  /\ bodies[b].pc = "yearUpdate"
  /\ UNCHANGED storeVars
  /\ emitted' = Append(emitted, [type |-> "yearUpdate", tick |-> currentTick,
                                 year |-> currentYear, isYearEnd |-> TRUE,
                                 tickNo |-> bodies[b].tickNo])
  /\ UNCHANGED persisted
  /\ Finish(b)
  /\ UNCHANGED bodyFrame

\* ------------------------------------------------------------ store errors
\* Whether the step the body is at makes a store call.
HasQuery(body) ==
  CASE body.pc = "processMigrations" -> NextMigrant(body.populations, body.i) # 0
    [] body.pc = "processConflicts" -> body.i <= Len(ConflictCells(body.populations))
    [] body.pc = "processTechSpread" -> body.i <= Len(TechPairs(body.populations))
    [] body.pc = "applyEvent" ->
         body.i <= Len(body.events) =>
           (EventEnded(body.events[body.i], currentTick)
              \/ EventHasHandler(body.events[body.i]))
    [] body.pc = "executeExperiment" -> HasHandler(body.pending[body.i])
    [] body.pc = "idle" -> FALSE
    [] body.pc = "emitTick" -> FALSE
    [] OTHER -> TRUE

\* The try block of executeExperiment, lines 506-539.
InExperimentTry(body) ==
  body.pc \in {"executeExperiment", "markResolved", "updatePlayerReputation"}

\* The store call the body awaits rejects (the connection is lost, the
\* statement times out): inside executeExperiment its catch block takes
\* over, anywhere else the catch block of tick().
QueryFails(b) ==
  /\ HasQuery(bodies[b])
  /\ nFails < budget.fails
  /\ nFails' = nFails + 1
  /\ UNCHANGED storeVars
  /\ IF InExperimentTry(bodies[b])
     THEN Continue(b, [bodies[b] EXCEPT !.pc = "markFailed"])
     ELSE IF bodies[b].pc = "updatePopulation"
     THEN \E rJitter \in Rand, rEducation \in Rand, rTech \in Rand :
            LET body == bodies[b]
                pop == body.populations[body.i]
                new == UpdatePopulation(pop, CellById(pop.cell_id),
                                        NeighborPops(body.populations, pop),
                                        body.isYearEnd, rJitter, rEducation, rTech)
            IN IF new.advances
               THEN /\ emitted' = EmitTechAdvancement(body, pop, new)
                    /\ UNCHANGED persisted
                    /\ Thrown(b)
               ELSE Caught(b)
     ELSE Caught(b)
  /\ UNCHANGED << runtimeVars, cancels, budget, neighborMap, submits, nSubmits, nFires, nStarts, nStops, nCancels,
                  stopReturned, executed >>

\* ------------------------------------------------- DELETE /api/experiments/:id
\* routes/experiments.ts, lines 202-209: the player's pending experiment is
\* looked up; a request that finds none answers 404.
CancelSelect(id) ==
  /\ nCancels < budget.cancels
  /\ nCancels' = nCancels + 1
  /\ id \in 1..Len(experiments)
  /\ cancels' = IF experiments[id].status = "pending"
                THEN Append(cancels, [pc |-> "refund", id |-> id,
                                      player_id |-> experiments[id].player_id,
                                      cost |-> experiments[id].cost])
                ELSE cancels
  /\ UNCHANGED << engineVars, runtimeVars, bodies, storeVars, budget, neighborMap, submits, nSubmits, nFires,
                  nStarts, nStops, nFails, stopReturned, executed, caught, logVars >>

\* lines 211-216: half of the cost, rounded down, is given back.
CancelRefund(k) ==
  /\ k \in 1..Len(cancels)
  /\ cancels[k].pc = "refund"
  /\ players' = [players EXCEPT ![cancels[k].player_id].experiment_points =
                                  @ + (cancels[k].cost \div 2)]
  /\ cancels' = [cancels EXCEPT ![k].pc = "update"]
  /\ UNCHANGED << engineVars, runtimeVars, bodies, butPlayers, histVars >>

\* lines 218-223: the row is set to cancelled, whatever its status is by now.
CancelUpdate(k) ==
  /\ k \in 1..Len(cancels)
  /\ cancels[k].pc = "update"
  /\ experiments' = [experiments EXCEPT ![cancels[k].id].status = "cancelled"]
  /\ cancels' = RemoveAt(cancels, k)
  /\ UNCHANGED << engineVars, runtimeVars, bodies, butExperiments, histVars >>

\* ------------------------------------------------- POST /api/experiments/submit
\* EXPERIMENT_TYPES, routes/experiments.ts lines 7-33: category, type, cost,
\* cooldown in seconds.
EXPERIMENT_TYPES ==
  { << "biological", "seed_species", 15, 60 >>, << "biological", "rewild", 10, 30 >>,
    << "biological", "pandemic", 50, 300 >>,
    << "technological", "uplift", 30, 120 >>, << "technological", "suppress", 25, 120 >>,
    << "technological", "gift_knowledge", 20, 60 >>,
    << "sociopolitical", "ideology_nudge", 10, 30 >>,
    << "sociopolitical", "prophetic_vision", 25, 90 >>,
    << "sociopolitical", "policy_insanity", 40, 180 >>,
    << "catastrophic", "meteor", 100, 600 >>, << "catastrophic", "supervolcano", 80, 500 >>,
    << "catastrophic", "climate_event", 60, 300 >>,
    << "playful", "crop_circles", 5, 15 >>, << "playful", "miracle", 15, 45 >>,
    << "playful", "teleport_species", 20, 60 >> }

expType(category, type) ==
  CHOOSE e \in EXPERIMENT_TYPES : e[1] = category /\ e[2] = type

\* The experiments the player asks for: a meteor and a suppression, on cell 1.
SubmitInputs == { << "catastrophic", "meteor" >>, << "technological", "suppress" >> }

\* What a route step leaves alone beside the store and its own requests.
routeFrame ==
  << engineVars, runtimeVars, bodies, budget, neighborMap, nFires, nStarts, nStops,
     nFails, stopReturned, executed, caught, logVars >>

\* lines 88-109: the category and the type are looked up and the player's
\* points are read; with fewer points than the cost the request answers 400.
SubmitSelect(category, type) ==
  /\ nSubmits < budget.submits
  /\ nSubmits' = nSubmits + 1
  /\ submits' = IF players[1].experiment_points < expType(category, type)[3]
                THEN submits
                ELSE Append(submits, [pc |-> "cooldown", player_id |-> 1,
                                      category |-> category, type |-> type,
                                      target_id |-> 1,
                                      cost |-> expType(category, type)[3]])
  /\ UNCHANGED << routeFrame, cancels, nCancels, storeVars >>

\* lines 111-148: the player's last experiment of the type is read; the
\* behaviours explored are shorter than the shortest cooldown, so such a row
\* is always inside its window and the request answers 400.  The world and
\* the target, which nothing here deletes, are then found.
SubmitCooldown(k) ==
  /\ k \in 1..Len(submits)
  /\ submits[k].pc = "cooldown"
  /\ submits' = IF \/ \E e \in 1..Len(experiments) :
                        /\ experiments[e].player_id = submits[k].player_id
                        /\ experiments[e].type = submits[k].type
                   \/ ~ world.exists
                THEN RemoveAt(submits, k)
                ELSE [submits EXCEPT ![k].pc = "deduct"]
  /\ UNCHANGED << routeFrame, cancels, nCancels, nSubmits, storeVars >>

\* lines 150-154: the cost is taken from the player.
SubmitDeduct(k) ==
  /\ k \in 1..Len(submits)
  /\ submits[k].pc = "deduct"
  /\ players' = [players EXCEPT ![submits[k].player_id].experiment_points =
                                  @ - submits[k].cost]
  /\ submits' = [submits EXCEPT ![k].pc = "insert"]
  /\ UNCHANGED << routeFrame, cancels, nCancels, nSubmits, butPlayers >>

\* lines 156-161: the experiment is inserted, pending.
SubmitInsert(k) ==
  /\ k \in 1..Len(submits)
  /\ submits[k].pc = "insert"
  /\ experiments' = Append(experiments,
                           ExperimentRow(submits[k].player_id, submits[k].category,
                                         submits[k].type, submits[k].target_id,
                                         submits[k].cost))
  /\ submits' = RemoveAt(submits, k)
  /\ UNCHANGED << routeFrame, cancels, nCancels, nSubmits, butExperiments >>

\* socket.on('submitExperiment'), engine.ts lines 916-952: with a running
\* world the experiment is inserted, pending, with cost 10; nothing is
\* validated and no points are taken.
SocketSubmit(category, type) ==
  /\ nSubmits < budget.submits
  /\ nSubmits' = nSubmits + 1
  /\ experiments' = IF world.exists
                    THEN Append(experiments,
                                [ExperimentRow(1, category, type, 1, SOCKET_EXPERIMENT_COST)
                                   EXCEPT !.paid = 0])
                    ELSE experiments
  /\ UNCHANGED << routeFrame, cancels, nCancels, submits, butExperiments >>

\* ------------------------------------------------------------ specification
TickStep(b) ==
  \/ GetPopulations(b)
  \/ UpdatePopulationStep(b)
  \/ ProcessMigrations(b)
  \/ MigrationSource(b)
  \/ ProcessConflicts(b)
  \/ ConflictLoser(b)
  \/ ConflictLog(b)
  \/ ProcessTechSpread(b)
  \/ ProcessEvents(b)
  \/ ApplyEvent(b)
  \/ GenerateRandomEvent(b)
  \/ ResolveExperiments(b)
  \/ ExecuteExperiment(b)
  \/ MarkResolved(b)
  \/ UpdatePlayerReputation(b)
  \/ MarkFailed(b)
  \/ CreateSnapshot(b)
  \/ InsertSnapshot(b)
  \/ Persist(b)
  \/ EmitTick(b)
  \/ YearUpdate(b)

Next ==
  \/ Start
  \/ \E k \in 1..MaxStarts : StartResume(k)
  \/ Stop
  \/ \E t \in 1..MaxStarts, b \in Slots : Fire(t, b)
  \/ \E b \in Slots : TickStep(b)
  \/ \E b \in Slots : QueryFails(b)
  \/ \E id \in 1..1 : CancelSelect(id)
  \/ \E k \in 1..MaxCancels : CancelRefund(k)
  \/ \E k \in 1..MaxCancels : CancelUpdate(k)
  \/ \E p \in SubmitInputs : SubmitSelect(p[1], p[2])
  \/ \E k \in 1..MaxSubmits : SubmitCooldown(k)
  \/ \E k \in 1..MaxSubmits : SubmitDeduct(k)
  \/ \E k \in 1..MaxSubmits : SubmitInsert(k)
  \/ \E p \in SubmitInputs : SocketSubmit(p[1], p[2])

Spec == Init /\ [][Next]_vars

\* ------------------------------------------------- the adjacency index alone
\* buildNeighborMap applied to every list of at most MaxCells cells whose
\* coordinates lie in -MaxCoord..MaxCoord and are distinct, as UNIQUE(world_id,
\* x, y) of the cells table has them.
GridCell(id, x, y) ==
  [id |-> id, x |-> x, y |-> y, biome |-> "grassland", food_capacity |-> 4,
   temperature |-> 15]

Coords == (0 - MaxCoord)..MaxCoord

Grids ==
  UNION { { [k \in 1..n |-> GridCell(k, f[k][1], f[k][2])] :
              f \in {g \in [1..n -> Coords \X Coords] :
                       \A i, j \in 1..n : g[i] = g[j] => i = j} }
          : n \in 0..MaxCells }

\* An engine that was never started, over a store that holds only cells.
GridInit ==
  /\ tickInterval = 0
  /\ currentTick = 0
  /\ currentYear = 0
  /\ worldId = 0
  /\ isRunning = FALSE
  /\ timers = {}
  /\ timersMade = 0
  /\ starts = << >>
  /\ bodies = [b \in Slots |-> IdleBody]
  /\ cancels = << >>
  /\ submits = << >>
  /\ budget = Budget(0, 0, 0, 0, 0, 0)
  /\ world = NoWorld
  /\ populations = << >>
  /\ experiments = << >>
  /\ players = [p \in {1} |-> PlayerRow(DEFAULT_EXPERIMENT_POINTS)]
  /\ events = << >>
  /\ snapshots = << >>
  /\ cellSpecies = << >>
  /\ cells \in Grids
  /\ neighborMap = buildNeighborMap(<< >>)
  /\ nFires = 0 /\ nStarts = 0 /\ nStops = 0 /\ nFails = 0 /\ nCancels = 0
  /\ nSubmits = 0
  /\ stopReturned = FALSE
  /\ executed = << >>
  /\ caught = << >>
  /\ emitted = << >>
  /\ persisted = << >>

\* tick(), line 90: the index is built from the rows of cells.
BuildNeighborMapStep ==
  /\ neighborMap' = buildNeighborMap(cells)
  /\ UNCHANGED << engineVars, runtimeVars, bodies, cancels, storeVars, budget,
                  submits, nSubmits, nFires, nStarts, nStops, nFails, nCancels, stopReturned,
                  executed, caught, logVars >>

GridNext == BuildNeighborMapStep

GridSpec == GridInit /\ [][GridNext]_vars

\* ------------------------------------------------------------- properties
IsPrefix(s, t) == Len(s) <= Len(t) /\ \A k \in 1..Len(s) : s[k] = t[k]

\* C1: tick executions are serialized: a new tick body never begins while a
\* previous one is still executing, so at most one body is in flight.
C1_Serialized == Cardinality(InFlight) <= 1

\* The order of the yearly phases as the specification states it.
C2_Order == << "processMigrations", "processConflicts", "processTechSpread",
               "processEvents", "resolveExperiments", "createSnapshot" >>

\* The yearly phase a step of the body belongs to, 0 for the steps outside.
C2_PhaseOf(pc) ==
  CASE pc \in {"processMigrations", "migrationSource"} -> 1
    [] pc \in {"processConflicts", "conflictLoser", "conflictLog"} -> 2
    [] pc = "processTechSpread" -> 3
    [] pc \in {"processEvents", "applyEvent", "generateRandomEvent"} -> 4
    [] pc \in {"resolveExperiments", "executeExperiment", "markResolved",
               "updatePlayerReputation", "markFailed"} -> 5
    [] pc \in {"createSnapshot", "insertSnapshot"} -> 6
    [] OTHER -> 0

C2_BodyInOrder(f) ==
  /\ f.isYearEnd = (f.tickNo % 60 = 0)
  /\ IsPrefix(f.begun, C2_Order)
  /\ IsPrefix(f.ended, C2_Order)
  /\ f.tickNo % 60 # 0 => f.begun = << >>
  /\ f.pc \in {"getPopulations", "updatePopulation"} => f.begun = << >>
  /\ C2_PhaseOf(f.pc) # 0 =>
       /\ Len(f.begun) = C2_PhaseOf(f.pc)
       /\ Len(f.ended) = C2_PhaseOf(f.pc) - 1
  /\ f.pc \in {"persist", "yearUpdate"} =>
       /\ f.ended = f.begun
       /\ f.tickNo % 60 = 0 => f.ended = C2_Order

\* C2: on a tick with tick mod 60 = 0 the yearly phases run after the
\* per-population pass in the order migration, conflict, tech diffusion,
\* events, experiments, snapshot, each beginning only when the one before has
\* returned, and the counters are persisted only after the last; on any other
\* tick no yearly phase runs.  A write of the world row is the persist step
\* of a body that is through its phases.
C2_PhaseOrder ==
  /\ [](\A b \in InFlight : C2_BodyInOrder(bodies[b]))
  /\ [][world' # world =>
          \E b \in InFlight : /\ bodies[b].pc = "persist"
                              /\ bodies[b].isYearEnd => bodies[b].ended = C2_Order]_vars

\* A body of a year-end tick is about to persist the counters with all six
\* phases behind it.
C2_Witness ==
  \E b \in InFlight : /\ bodies[b].pc = "persist"
                      /\ bodies[b].tickNo % 60 = 0
                      /\ bodies[b].ended = C2_Order

\* C3: every experiment changes status exactly once: once resolved, failed
\* or cancelled its status never changes again, whatever the interleaving
\* of the engine with the cancel request and whatever store call rejects.
C3_StatusOnce ==
  [][\A id \in 1..Len(experiments) :
       experiments[id].status # "pending" =>
         experiments'[id].status = experiments[id].status]_vars

\* C4: after any engine operation every population has stability,
\* prosperity and education in 0..100, tech_level in 0..9 and a
\* population_size that is not negative.
C4_Bounds ==
  \A k \in 1..Len(populations) :
    LET p == populations[k]
    IN /\ 0 <= p.stability /\ p.stability <= 100
       /\ 0 <= p.prosperity /\ p.prosperity <= 100
       /\ 0 <= p.education /\ p.education <= 100
       /\ 0 <= p.tech_level /\ p.tech_level <= 9
       /\ p.population_size >= 0

\* C5: once stop() has returned and until start() is called again, no
\* periodic timer is armed and no tick body begins.
C5_Stopped ==
  /\ [](stopReturned => timers = {})
  /\ [][stopReturned /\ stopReturned' => executed' = executed]_vars

\* C6: an exception inside a tick body is caught in tick(): the step that
\* catches it leaves the engine running as it was, with its timer armed and
\* the body's frame gone, so that a firing of the timer of a running engine
\* executes a new tick body.
C6_CaughtKeepsRunning ==
  [][/\ Len(caught') > Len(caught) =>
          /\ isRunning' = isRunning /\ worldId' = worldId
          /\ tickInterval' = tickInterval /\ timers' = timers
          /\ \E b \in Slots : bodies[b].pc # "idle" /\ bodies'[b].pc = "idle"
     /\ (nFires' > nFires /\ isRunning /\ worldId # 0) =>
          /\ Len(executed') = Len(executed) + 1
          /\ \E b \in Slots : bodies[b].pc = "idle" /\ bodies'[b].pc # "idle"]_vars

\* A tick threw, the engine was never stopped, and the next firing of the
\* timer executed the following tick.
C6_Witness ==
  /\ Len(caught) = 1 /\ Len(executed) = 2 /\ nStops = 0 /\ nStarts = 1
  /\ executed[1] = caught[1].tickNo
  /\ executed[2] = caught[1].tickNo + 1
  /\ isRunning /\ timers # {}

\* C7: a tick whose body throws applies no effect to world state: no store
\* call of its body changed populations, events, experiments, players or
\* snapshots.
C7_NoEffect == \A k \in 1..Len(caught) : ~caught[k].wrote

\* C7, amended: a tick whose body throws keeps the advance of the tick
\* counter and keeps every write its body made before the throw: the catch
\* block changes neither the counters nor the store.
C7_NoRollback ==
  [][Len(caught') > Len(caught) =>
       /\ currentTick' = currentTick /\ currentYear' = currentYear
       /\ storeVars' = storeVars
       /\ \E k \in 1..Len(executed) : executed[k] = caught'[Len(caught')].tickNo]_vars

\* A year-end tick threw after a store call of its body had changed the
\* store.
C7_Witness ==
  \E k \in 1..Len(caught) : caught[k].wrote /\ caught[k].isYearEnd

\* C8: in memory and in the persisted world row the year is
\* floor(tick / 60), across failed ticks and stop/start cycles.
C8_Year ==
  /\ currentYear = currentTick \div 60
  /\ world.exists => world.current_year = world.current_tick \div 60

\* After a failed tick and a stop/start cycle the world has been persisted
\* at the year boundary 660.
C8_Witness ==
  /\ Len(caught) > 0 /\ nStops > 0 /\ nStarts > 1
  /\ world.current_tick = 660 /\ world.current_year = 11
  /\ currentTick = 660 /\ currentYear = 11

\* C9: the persisted current_tick never decreases and no tick number is
\* executed twice.
C9_Monotonic ==
  /\ [][world'.current_tick >= world.current_tick]_vars
  /\ [](\A i, j \in 1..Len(executed) : i < j => executed[i] # executed[j])

\* C10: each yearly phase computes with the state the phase before it left:
\* the sizes it uses are the stored sizes and the rows it works on are the
\* stored rows, those that migration inserted included.
C10_SeesPrevious ==
  \A b \in InFlight :
    \A k \in 1..Len(bodies[b].used) :
      LET u == bodies[b].used[k]
      IN u.size = u.stored /\ u.seen = u.rows

\* C11: in the per-population pass every population is computed from the
\* rows loaded at the start of the tick: the neighbour rows handed to
\* updatePopulation are rows of that snapshot, whatever the pass has
\* written to the store since.
C11_FromSnapshot ==
  \A b \in InFlight :
    \A k \in 1..Len(bodies[b].seen) :
      \E h \in 1..Len(bodies[b].populations) :
        bodies[b].seen[k] = bodies[b].populations[h]

\* The pass has written a new size for a population and then handed that
\* population's row, as a neighbour, to the update of another one.
C11_Witness ==
  \E b \in InFlight :
    \E k \in 1..Len(bodies[b].seen) :
      LET r == bodies[b].seen[k]
      IN /\ bodies[b].pc = "processMigrations"
         /\ bodies[b].used = << >>
         /\ populations[r.id].population_size # r.population_size

\* C12: a migration step conserves people: what the target gains the
\* source loses, so the stored people are the same whenever a tick body is
\* between two migration steps, has processMigrations behind it, or has
\* ended inside it.
C12_Conserves ==
  /\ \A b \in InFlight :
       (bodies[b].pc = "processMigrations" /\ Cardinality(InFlight) = 1) =>
         SumOf(populations, "population_size") = bodies[b].sumBefore
  /\ \A k \in 1..Len(caught) : caught[k].gained = 0

\* C13: migrants are added to an existing population only if it is in the
\* target cell and of the civilization of the source: migration never adds
\* people to a population of another civilization.
C13_SameCivilization ==
  \A b \in InFlight :
    (bodies[b].pc = "migrationSource" /\ bodies[b].existingPop # 0) =>
      LET source == bodies[b].populations[bodies[b].i]
          into == populations[bodies[b].existingPop]
      IN /\ into.cell_id = bodies[b].target
         /\ into.civilization_id = source.civilization_id

\* C14: starting with at most one row per (cell, civilization), every
\* reachable state has at most one row per (cell, civilization).
C14_OneRow ==
  \A j, k \in 1..Len(populations) :
    (/\ populations[j].cell_id = populations[k].cell_id
     /\ populations[j].civilization_id = populations[k].civilization_id) => j = k

\* C15: after a conflict the stored stability and the stored size of the
\* winner and of the loser are floored at 0.
C15_FlooredAtZero ==
  \A b \in InFlight :
    bodies[b].pc = "conflictLog" =>
      \A k \in {bodies[b].winner, bodies[b].loser} :
        LET row == populations[bodies[b].populations[k].id]
        IN row.stability >= 0 /\ row.population_size >= 0

\* C16: a step of processConflicts raises neither the stored size nor the
\* stored stability of any population, adds and removes no row, and changes
\* no row but the winner's and the loser's of the conflict it is in.
C16_Step ==
  \A b \in Slots :
    (bodies[b].pc \in {"processConflicts", "conflictLoser", "conflictLog"}
       /\ bodies'[b] # bodies[b]) =>
      /\ Len(populations') = Len(populations)
      /\ \A k \in 1..Len(populations) :
           /\ populations'[k].population_size <= populations[k].population_size
           /\ populations'[k].stability <= populations[k].stability
           /\ populations'[k] # populations[k] =>
                /\ bodies'[b].pc \in {"conflictLoser", "conflictLog"}
                /\ k \in {bodies'[b].populations[bodies'[b].winner].id,
                          bodies'[b].populations[bodies'[b].loser].id}

C16_NoGain == [][C16_Step]_vars

C16_Witness ==
  \E b \in InFlight :
    /\ bodies[b].pc = "conflictLog"
    /\ Len(populations) > 2
    /\ \E k \in 1..Len(populations) :
         /\ k = bodies[b].populations[bodies[b].loser].id
         /\ populations[k].stability < bodies[b].populations[bodies[b].loser].stability

\* C17: the stored tech_level of an existing population is lowered by no
\* step but the effect of an experiment.
C17_Step ==
  \A k \in 1..Len(populations) :
    (k <= Len(populations') /\ populations'[k].tech_level < populations[k].tech_level) =>
      \E b \in Slots : bodies[b].pc = "executeExperiment" /\ bodies'[b] # bodies[b]

C17_TechKept == [][C17_Step]_vars

\* C18 (as stated): every event a yearly pass has read is deactivated or
\* applied in that pass, whichever way the pass ends.
C18_EveryEvent ==
  \A k \in 1..Len(caught) : caught[k].unreached = 0

\* C18 (amended): when the pass examines an active event, it deactivates it
\* and leaves the populations alone if end_tick is set and the engine's tick
\* has reached it, and otherwise applies it and leaves it active; the events
\* the pass has examined so far were each deactivated or applied exactly
\* once; no step makes an inactive event active.
C18_Step ==
  /\ \A k \in 1..Len(events) : ~events[k].is_active => ~events'[k].is_active
  /\ \A b \in Slots :
       (bodies'[b].pc = "applyEvent") =>
         LET done == bodies'[b].dispatched \o bodies'[b].deactivated
         IN /\ Len(done) = bodies'[b].i - 1
            /\ \A h \in 1..(bodies'[b].i - 1) :
                 Cardinality({n \in 1..Len(done) : done[n] = bodies'[b].events[h].id}) = 1
  /\ \A b \in Slots :
       (/\ bodies[b].pc = "applyEvent" /\ bodies'[b].pc = "applyEvent"
        /\ bodies'[b].i = bodies[b].i + 1) =>
         LET e == bodies[b].events[bodies[b].i]
         IN IF e.end_tick # 0 /\ currentTick >= e.end_tick
            THEN /\ ~events'[e.id].is_active
                 /\ populations' = populations
                 /\ bodies'[b].dispatched = bodies[b].dispatched
            ELSE /\ events[e.id].is_active /\ events'[e.id].is_active
                 /\ populations' = ApplyEventEffect(populations, e)
                 /\ bodies'[b].dispatched = Append(bodies[b].dispatched, e.id)

C18_Pass == [][C18_Step]_vars

C18_Witness ==
  \E b \in InFlight :
    /\ bodies[b].pc = "applyEvent"
    /\ bodies[b].i > Len(bodies[b].events)
    /\ bodies[b].deactivated # << >>
    /\ bodies[b].dispatched # << >>
    /\ \E k \in 1..Len(populations) : populations[k].prosperity > 50

\* C19: a randomly generated event is created active, with scope
\* civilization, starting at the tick T of the pass that generates it and
\* ending at T + 600, the year boundary at whose pass it is deactivated.
C19_Step ==
  \A b \in Slots :
    (/\ bodies[b].pc = "generateRandomEvent" /\ bodies'[b] # bodies[b]
     /\ Len(events') = Len(events) + 1) =>
      LET e == events'[Len(events')]
          T == bodies[b].tickNo
      IN /\ e.is_active
         /\ e.scope = "civilization"
         /\ e.start_tick = T
         /\ e.end_tick = T + TICKS_PER_YEAR * EVENT_DURATION_YEARS
         /\ e.end_tick % TICKS_PER_YEAR = 0

C19_RandomEvent == [][C19_Step]_vars

C20_Step ==
  \A b \in Slots :
    LET Pending == {k \in 1..Len(experiments) : experiments[k].status = "pending"}
        Read(body) == {body.pending[h].id : h \in 1..Len(body.pending)}
    IN /\ (bodies[b].pc = "resolveExperiments" /\ bodies'[b].pc = "executeExperiment") =>
            Read(bodies'[b]) = Pending
       /\ (bodies[b].pc = "resolveExperiments" /\ bodies'[b].pc = "createSnapshot") =>
            Pending = {}
       /\ (/\ bodies[b].pc \in {"markResolved", "updatePlayerReputation", "markFailed"}
           /\ bodies'[b].pc = "createSnapshot") =>
            \A k \in Read(bodies[b]) : experiments'[k].status # "pending"

C21_NeverEndsTick ==
  \A k \in 1..Len(caught) : caught[k].pc # "markFailed"

\* C21 (amended): when the catch block of executeExperiment has stored its
\* row, the experiment is failed with the generic error payload and the pass
\* goes on to the next experiment it read, or after the last one to the
\* snapshot; the pass begins to execute no experiment stored as failed.
C21_Step ==
  \A b \in Slots :
    /\ (bodies[b].pc = "markFailed" /\ bodies'[b] # bodies[b] /\ bodies'[b].pc # "idle") =>
         LET body == bodies[b]
             exp == body.pending[body.i]
         IN /\ experiments'[exp.id].status = "failed"
            /\ experiments'[exp.id].result = "error"
            /\ IF body.i < Len(body.pending)
               THEN /\ bodies'[b].pc = "executeExperiment"
                    /\ bodies'[b].i = body.i + 1
                    /\ bodies'[b].pending = body.pending
               ELSE bodies'[b].pc = "createSnapshot"
    /\ (bodies'[b].pc = "executeExperiment" /\ bodies'[b] # bodies[b]) =>
         experiments'[bodies'[b].pending[bodies'[b].i].id].status # "failed"

C21_CaughtAlone == [][C21_Step]_vars

C21_Witness ==
  \E b \in InFlight :
    /\ bodies[b].pc = "createSnapshot"
    /\ Len(experiments) = 2
    /\ experiments[1].status = "failed"
    /\ experiments[2].status = "resolved"

\* C22 (as stated): an experiment whose type has no handler is never stored
\* as failed.
C22_NotFailed ==
  \A k \in 1..Len(experiments) :
    << experiments[k].category, experiments[k].type >> \notin Handlers =>
      experiments[k].status # "failed"

\* C22 (amended): executing an experiment whose type has no handler throws
\* nothing and gives success = false; while the pass is at that experiment no
\* population or species row and no reputation changes; when the UPDATE
\* that stores the result succeeds the experiment is resolved with the
\* failure result and no reputation call follows.
C22_Step ==
  \A b \in Slots :
    (/\ bodies[b].pc \in {"executeExperiment", "markResolved", "updatePlayerReputation",
                          "markFailed"}
     /\ bodies'[b] # bodies[b]
     /\ << bodies[b].pending[bodies[b].i].category,
           bodies[b].pending[bodies[b].i].type >> \notin Handlers) =>
      LET body == bodies[b]
          exp == body.pending[body.i]
      IN /\ populations' = populations
         /\ cellSpecies' = cellSpecies
         /\ \A p \in DOMAIN players :
              /\ players'[p].benevolence = players[p].benevolence
              /\ players'[p].mischief = players[p].mischief
              /\ players'[p].curiosity = players[p].curiosity
         /\ body.pc # "updatePlayerReputation"
         /\ body.pc = "executeExperiment" =>
              /\ bodies'[b].pc = "markResolved"
              /\ bodies'[b].result = FALSE
              /\ experiments' = experiments
         /\ (body.pc = "markResolved" /\ bodies'[b].pc \notin {"markFailed", "idle"}) =>
              /\ experiments'[exp.id].status = "resolved"
              /\ experiments'[exp.id].result = "failure"
              /\ bodies'[b].pc # "updatePlayerReputation"

C22_NoHandler == [][C22_Step]_vars

C22_Witness ==
  /\ \E k \in 1..Len(experiments) :
       /\ experiments[k].type = "suppress"
       /\ experiments[k].status = "resolved"
       /\ experiments[k].result = "failure"
  /\ \E b \in InFlight : bodies[b].pc = "createSnapshot"
  /\ \A p \in DOMAIN players : players[p].curiosity = 0

\* C23: an experiment that ends in status failed or cancelled has changed no
\* reputation.
C23_Reputation ==
  \A p \in DOMAIN players :
    \A n \in 1..Len(players[p].credited) :
      experiments[players[p].credited[n]].status \notin {"failed", "cancelled"}

\* C24: every snapshot row carries a year-boundary tick and the year of that
\* tick, and no two snapshot rows carry the same tick.
C24_Yearly ==
  \A n \in 1..Len(snapshots) :
    /\ snapshots[n].tick % TICKS_PER_YEAR = 0
    /\ snapshots[n].year = snapshots[n].tick \div TICKS_PER_YEAR
    /\ \A m \in 1..Len(snapshots) : snapshots[m].tick = snapshots[n].tick => m = n

\* C25: when a start() that follows a stop() has set the engine's counters,
\* they equal the tick and the year persisted in the world row.
C25_Step ==
  \A k \in 1..Len(starts) :
    (starts' = RemoveAt(starts, k) /\ starts[k].restart) =>
      /\ currentTick' = world'.current_tick
      /\ currentYear' = world'.current_year

C25_Restart == [][C25_Step]_vars

\* C26: start() and stop() write nothing to the store, and when stop()
\* returns after a start() that has loaded the world, with no timer having
\* fired, the engine's counters are the loaded ones, those of the world row.
C26_Step ==
  /\ (nStarts' # nStarts \/ Len(starts') < Len(starts) \/ nStops' # nStops) =>
       UNCHANGED storeVars
  /\ (nStops' # nStops /\ nFires = 0 /\ nStarts >= 1 /\ starts = << >> /\ world.exists) =>
       /\ currentTick' = world'.current_tick
       /\ currentYear' = world'.current_year
       /\ ~isRunning'

C26_StartStop == [][C26_Step]_vars

C26_Witness ==
  /\ stopReturned /\ nFires = 0 /\ nStarts >= 1 /\ starts = << >> /\ world.exists
  /\ currentTick = world.current_tick
  /\ currentTick > 0
  /\ tickInterval = 0

\* C27: a tick notification carries a tick and a year that the UPDATE of
\* tick() has persisted before.
C27_AfterPersist ==
  \A n \in 1..Len(emitted) :
    emitted[n].type = "tick" =>
      \E m \in 1..Len(persisted) :
        /\ persisted[m].tick = emitted[n].tick
        /\ persisted[m].year = emitted[n].year

\* C28: a population of size 0 is inert: outside the effect of an experiment
\* no step changes its size or its stability.
C28_Step ==
  \A k \in 1..Len(populations) :
    (/\ populations[k].population_size = 0
     /\ ~ \E b \in Slots : bodies[b].pc = "executeExperiment" /\ bodies'[b] # bodies[b]) =>
      /\ populations'[k].population_size = 0
      /\ populations'[k].stability = populations[k].stability

C28_Inert == [][C28_Step]_vars

\* A lists B in the index: B is among the neighbours stored under A's key.
Lists(map, A, B) ==
  LET near == map[CoordKey(A.x, A.y)]
  IN \E k \in 1..Len(near) : near[k] = B

\* C29, as stated: the neighbour relation of the index is not symmetric:
\* among the lists of cells with distinct coordinates that a store without
\* cells may come to hold, one has a cell A that lists a cell B which does
\* not list A.
C29_NotSymmetric ==
  (cells = << >>) =>
    \E g \in Grids :
      \E i, j \in 1..Len(g) :
        /\ Lists(buildNeighborMap(g), g[i], g[j])
        /\ ~ Lists(buildNeighborMap(g), g[j], g[i])

\* C29, amended: over cells with distinct coordinates the neighbour relation
\* of the index is symmetric: a cell that lists another is listed by it.
C29_Symmetric ==
  (DOMAIN neighborMap # {}) =>
    \A i, j \in 1..Len(cells) :
      Lists(neighborMap, cells[i], cells[j]) => Lists(neighborMap, cells[j], cells[i])

\* The index is built and lists a cell one step up the diagonal of another.
C29_Witness ==
  /\ DOMAIN neighborMap # {}
  /\ \E i, j \in 1..Len(cells) :
       /\ cells[j].x = cells[i].x + 1
       /\ cells[j].y = cells[i].y + 1
       /\ Lists(neighborMap, cells[i], cells[j])

\* What C30 requires of a migration that sends people of the population
\* `source`, a row as the store or the tick's array has it, to the cell
\* `target`, after which the store holds `after`: the source is large and
\* crowded enough, the target is a non-ocean neighbour cell that is unoccupied
\* or holds a population below half the carrying capacity, and a row the
\* migration has added is the settlement of a tenth of the source.
MigrationAsStated(source, target, before, after) ==
  LET cell == CellById(source.cell_id)
      carryingCap == calculateCarryingCapacity(cell, source.tech_level)
      near == Neighbors(cell)
      there == {k \in 1..Len(before) : before[k].cell_id = target}
  IN /\ source.population_size >= MIGRATION_MIN_SIZE
     /\ 10 * source.population_size >= 9 * carryingCap
     /\ \E n \in 1..Len(near) : near[n].id = target /\ near[n].biome # "ocean"
     /\ \/ there = {}
        \/ \E k \in there : 2 * before[k].population_size < carryingCap
     /\ Len(after) > Len(before) =>
          LET new == after[Len(after)]
          IN /\ new.cell_id = target
             /\ new.population_size = source.population_size \div 10
             /\ new.tech_level = Max(0, source.tech_level - 1)
             /\ new.stability = 50
             /\ new.prosperity = 40
             /\ new.civilization_id = source.civilization_id

\* C30: a population sends migrants in the yearly pass only if its size is at
\* least 1000 and at least 0.9 of the carrying capacity of its cell; the
\* target is a non-ocean cell next to the source's that is unoccupied or holds
\* a population below half the carrying capacity; a population the migration
\* creates has a tenth of the source's size, rounded down, the source's
\* tech_level less one and not below 0, stability 50, prosperity 40 and the
\* source's civilization.
C30_Step ==
  \A b \in Slots :
    (bodies[b].pc = "processMigrations" /\ bodies'[b].pc = "migrationSource") =>
      LET snapshot == bodies[b].populations[bodies'[b].i]
      IN MigrationAsStated(populations[snapshot.id], bodies'[b].target,
                           populations, populations')

C30_Migration == [][C30_Step]_vars

\* C31: the stability step of a tick is kept by the store: after the turn of
\* the per-population loop for a population whose prosperity is below 30 the
\* stored stability is max(0, s - 0.1), and for one whose prosperity is above
\* 70 it is min(100, s + 0.05), s being the stability the tick read.
C31_Step ==
  \A b \in Slots :
    (bodies[b].pc = "updatePopulation" /\ bodies'[b] # bodies[b]) =>
      LET pop == bodies[b].populations[bodies[b].i]
      IN /\ pop.prosperity < 30 =>
              100 * populations'[pop.id].stability = Max(0, 100 * pop.stability - 10)
         /\ pop.prosperity > 70 =>
              100 * populations'[pop.id].stability = Min(10000, 100 * pop.stability + 5)

C31_Accumulates == [][C31_Step]_vars

\* C32: one application of a famine changes every population of its target
\* cell from (size p, prosperity q, stability s) to (0.99 * p, max(0, q - 1),
\* max(0, s - 0.5)) as stored, and changes no population of another cell.
C32_Step ==
  \A b \in Slots :
    (/\ bodies[b].pc = "applyEvent"
     /\ Len(bodies'[b].dispatched) > Len(bodies[b].dispatched)
     /\ bodies[b].events[bodies[b].i].type = "famine") =>
      LET event == bodies[b].events[bodies[b].i]
      IN \A k \in 1..Len(populations) :
           IF populations[k].cell_id = event.target_cell_id
           THEN /\ 100 * populations'[k].population_size = 99 * populations[k].population_size
                /\ populations'[k].prosperity = Max(0, populations[k].prosperity - 1)
                /\ 2 * populations'[k].stability = Max(0, 2 * populations[k].stability - 1)
           ELSE populations'[k] = populations[k]

C32_Famine == [][C32_Step]_vars

\* C33: an experiment the player cancelled never has its effect applied and
\* never gives reputation: the engine runs no handler and changes no
\* reputation for an experiment whose stored status is cancelled, and an
\* experiment that is cancelled carries no result of a handler and has
\* changed no reputation.
C33_Step ==
  /\ \A b \in Slots :
       (bodies[b].pc \in {"executeExperiment", "updatePlayerReputation"}
          /\ bodies'[b] # bodies[b]) =>
         LET exp == bodies[b].pending[bodies[b].i]
         IN experiments[exp.id].status = "cancelled" =>
              /\ ~ (bodies[b].pc = "executeExperiment" /\ bodies'[b].result)
              /\ players' = players
  /\ \A k \in 1..Len(experiments') :
       experiments'[k].status = "cancelled" =>
         /\ experiments'[k].result = "null"
         /\ \A p \in DOMAIN players' :
              \A n \in 1..Len(players'[p].credited) : players'[p].credited[n] # k

C33_CancelledInert == [][C33_Step]_vars

\* C34: at most one periodic timer is armed at any time, for any sequence of
\* start() and stop() calls.
C34_OneTimer == Cardinality(timers) <= 1

\* C35: the points a cancellation gives back for an experiment never exceed
\* the points taken from the player when it was submitted, by the REST route
\* or by the socket handler.
C35_Step ==
  \A k \in 1..Len(cancels) :
    (/\ Len(cancels') = Len(cancels)
     /\ cancels[k].pc = "refund"
     /\ cancels'[k].pc = "update") =>
      players'[cancels[k].player_id].experiment_points
          - players[cancels[k].player_id].experiment_points
        <= experiments[cancels[k].id].paid

C35_RefundWithinCost == [][C35_Step]_vars

\* C36: a player's points never become negative: a submission takes its cost
\* only from a balance that is at least the cost at that moment, and two
\* submissions of one type inside the cooldown window are never both
\* accepted.
C36_Step ==
  /\ \A k \in 1..Len(submits) :
       (/\ Len(submits') = Len(submits)
        /\ submits[k].pc = "deduct"
        /\ submits'[k].pc = "insert") =>
         players[submits[k].player_id].experiment_points >= submits[k].cost
  /\ \A p \in DOMAIN players' : players'[p].experiment_points >= 0
  /\ \A i, j \in 1..Len(experiments') :
       (/\ experiments'[i].player_id = experiments'[j].player_id
        /\ experiments'[i].type = experiments'[j].type
        /\ experiments'[i].paid > 0 /\ experiments'[j].paid > 0) => i = j

C36_NeverNegative == [][C36_Step]_vars

\* C37: in every conflict processConflicts resolves, the winner and the loser
\* belong to different civilizations.
C37_DifferentCivilizations ==
  \A b \in InFlight :
    bodies[b].pc \in {"conflictLoser", "conflictLog"} =>
      bodies[b].populations[bodies[b].winner].civilization_id
        # bodies[b].populations[bodies[b].loser].civilization_id

\* C38: a techAdvancement notification is sent for a population only when
\* its stored tech_level strictly increases in that tick, it carries the new
\* stored value, and none is sent for a population already at tech_level 9.
C38_Step ==
  (Len(emitted') > Len(emitted) /\ emitted'[Len(emitted')].type = "techAdvancement") =>
    LET e == emitted'[Len(emitted')]
    IN /\ populations'[e.id].tech_level > populations[e.id].tech_level
       /\ e.tech_level = populations'[e.id].tech_level
       /\ populations[e.id].tech_level # MAX_TECH

C38_TechAdvancement == [][C38_Step]_vars

\* C39: every (category, type) pair of EXPERIMENT_TYPES has a handler in the
\* engine: an accepted and paid experiment that the engine has resolved
\* carries the result of a successful handler.
C39_EveryTypeHandled ==
  \A k \in 1..Len(experiments) :
    (/\ \E e \in EXPERIMENT_TYPES :
          e[1] = experiments[k].category /\ e[2] = experiments[k].type
     /\ experiments[k].paid > 0
     /\ \E c \in 1..Len(cells) : cells[c].id = experiments[k].target_id
     /\ experiments[k].status = "resolved") =>
      experiments[k].result = "success"

====
